---------------------------- MODULE Spec2Model ----------------------------
(***************************************************************************)
(* A model of the help desk pipeline of RaydaHelpdesk:                     *)
(*   HelpDeskSystem.process_request   (core/system.py)                     *)
(*   LLMRequestClassifier             (core/classifier.py)                 *)
(*   LLMKnowledgeRetriever            (core/knowledge_retriever.py)        *)
(*   EscalationEngine                 (core/escalation_logic.py)           *)
(*   ResponseGenerator                (core/response_generator.py)         *)
(*                                                                         *)
(* Text is a sequence of one-character strings, so that substring tests,   *)
(* case folding, splitting and replacing are computed as Python computes   *)
(* them.  A confidence or relevance score is an integer number of          *)
(* thousandths (800 is 0.8).                                               *)
(***************************************************************************)
EXTENDS Integers, Sequences, FiniteSets, TLC

VARIABLES
    categories,         \* LLMRequestClassifier.categories, in insertion order
    escalation_rules,   \* EscalationEngine.escalation_rules, in insertion order
    knowledge_chunks,   \* LLMKnowledgeRetriever.knowledge_chunks
    faiss_index,        \* TRUE when LLMKnowledgeRetriever.faiss_index was built
    pc,                 \* the statement process_request (or a callee) is at
    request,            \* the HelpDeskRequest being processed
    issued,             \* how many request identifiers uuid4 has produced
    predicted_category, \* classify: the validated category name
    confidence_response,\* classify: the reply to the confidence prompt
    confidence,         \* classify: the parsed confidence
    classification,     \* the ClassificationResult
    retrieved,          \* the list of RetrievalResult
    tiers,              \* retrieve: the tiers run so far, in order
    vector_results,     \* retrieve: what _vector_search returned
    llm_response,       \* retrieve: the reply to the ranking prompt
    reasons,            \* should_escalate: the reasons accumulated so far
    urgency_level,      \* should_escalate: the urgency so far
    escalation,         \* the EscalationDecision
    response_text,      \* the text generate_response returned
    exception,          \* the exception a stage let escape, if any
    result,             \* what process_request gave its caller
    calls,              \* the outcomes of the service calls made for this request
    data,               \* _load_json_file: the document json.load returned
    raw_response,       \* _clean_response_formatting: the raw text it was given
    threads             \* the process_request calls running concurrently

vars == <<categories, escalation_rules, knowledge_chunks, faiss_index, pc, request,
          issued, predicted_category, confidence_response, confidence,
          classification, retrieved, tiers, vector_results, llm_response, reasons,
          urgency_level, escalation, response_text, exception, result, calls,
          data, raw_response, threads>>

config == <<categories, escalation_rules, knowledge_chunks, faiss_index>>
clsVars == <<predicted_category, confidence_response, confidence, classification>>
retVars == <<retrieved, tiers, vector_results, llm_response>>
escVars == <<reasons, urgency_level, escalation>>
ioVars == <<request, issued, calls, exception, response_text, result>>
auxVars == <<data, raw_response, threads>>

-----------------------------------------------------------------------------
(* Python str operations on sequences of characters                        *)

UpperToLower ==
    [c \in {"A","B","C","D","E","F","G","H","I","J","K","L","M",
            "N","O","P","Q","R","S","T","U","V","W","X","Y","Z"} |->
        CASE c = "A" -> "a" [] c = "B" -> "b" [] c = "C" -> "c" [] c = "D" -> "d"
          [] c = "E" -> "e" [] c = "F" -> "f" [] c = "G" -> "g" [] c = "H" -> "h"
          [] c = "I" -> "i" [] c = "J" -> "j" [] c = "K" -> "k" [] c = "L" -> "l"
          [] c = "M" -> "m" [] c = "N" -> "n" [] c = "O" -> "o" [] c = "P" -> "p"
          [] c = "Q" -> "q" [] c = "R" -> "r" [] c = "S" -> "s" [] c = "T" -> "t"
          [] c = "U" -> "u" [] c = "V" -> "v" [] c = "W" -> "w" [] c = "X" -> "x"
          [] c = "Y" -> "y" [] c = "Z" -> "z"]

LowerChar(c) == IF c \in DOMAIN UpperToLower THEN UpperToLower[c] ELSE c

IsLowerLetter(c) == \E u \in DOMAIN UpperToLower : UpperToLower[u] = c

UpperChar(c) ==
    IF IsLowerLetter(c) THEN CHOOSE u \in DOMAIN UpperToLower : UpperToLower[u] = c
    ELSE c

IsLetter(c) == c \in DOMAIN UpperToLower \/ IsLowerLetter(c)

IsSpace(c) == c \in {" ", "\t", "\n", "\r"}

Digits == <<"0","1","2","3","4","5","6","7","8","9">>

IsDigit(c) == \E d \in 1..10 : Digits[d] = c

DigitValue(c) == (CHOOSE d \in 1..10 : Digits[d] = c) - 1

\* s.lower()
Lower(s) == [i \in 1..Len(s) |-> LowerChar(s[i])]

\* s.title(): a letter is upper-cased after a non-letter and lower-cased after a letter
Title(s) ==
    [i \in 1..Len(s) |->
        IF i > 1 /\ IsLetter(s[i-1]) THEN LowerChar(s[i]) ELSE UpperChar(s[i])]

\* s[i:].startswith(p), i counted from 1
StartsAt(s, p, i) ==
    /\ i + Len(p) - 1 <= Len(s)
    /\ \A j \in 1..Len(p) : s[i + j - 1] = p[j]

\* p in s
Contains(s, p) == \E i \in 1..(Len(s) - Len(p) + 1) : StartsAt(s, p, i)

\* s.replace(old, new), old not empty: leftmost matches, not overlapping
RECURSIVE ReplaceFrom(_, _, _, _)
ReplaceFrom(s, old, new, i) ==
    IF i > Len(s) THEN << >>
    ELSE IF StartsAt(s, old, i) THEN new \o ReplaceFrom(s, old, new, i + Len(old))
    ELSE <<s[i]>> \o ReplaceFrom(s, old, new, i + 1)

Replace(s, old, new) == ReplaceFrom(s, old, new, 1)

\* s.strip()
Strip(s) ==
    LET keep == {i \in 1..Len(s) : ~IsSpace(s[i])}
    IN  IF keep = {} THEN << >>
        ELSE LET lo == CHOOSE i \in keep : \A j \in keep : i <= j
                 hi == CHOOSE i \in keep : \A j \in keep : j <= i
             IN  SubSeq(s, lo, hi)

\* s.split(): the maximal runs of characters that are not whitespace
RECURSIVE SplitFrom(_, _, _)
SplitFrom(s, i, word) ==
    IF i > Len(s) THEN (IF word = << >> THEN << >> ELSE <<word>>)
    ELSE IF IsSpace(s[i])
         THEN (IF word = << >> THEN << >> ELSE <<word>>) \o SplitFrom(s, i + 1, << >>)
         ELSE SplitFrom(s, i + 1, Append(word, s[i]))

Split(s) == SplitFrom(s, 1, << >>)

\* s.split(sep) for a one-character sep: the pieces between the separators
RECURSIVE SplitOnFrom(_, _, _, _)
SplitOnFrom(s, sep, i, piece) ==
    IF i > Len(s) THEN <<piece>>
    ELSE IF s[i] = sep THEN <<piece>> \o SplitOnFrom(s, sep, i + 1, << >>)
         ELSE SplitOnFrom(s, sep, i + 1, Append(piece, s[i]))

SplitOn(s, sep) == SplitOnFrom(s, sep, 1, << >>)

\* sep.join(parts)
RECURSIVE Join(_, _)
Join(sep, parts) ==
    IF parts = << >> THEN << >>
    ELSE IF Len(parts) = 1 THEN parts[1]
    ELSE parts[1] \o sep \o Join(sep, Tail(parts))

\* str(n) for a natural number n
RECURSIVE NatText(_)
NatText(n) == IF n < 10 THEN <<Digits[n + 1]>> ELSE NatText(n \div 10) \o <<Digits[(n % 10) + 1]>>

\* f"{x:.2f}" for x in thousandths, 0 <= x: two decimals, ties to the even digit
Format2f(x) ==
    LET q == x \div 10
        r == x % 10
        h == IF r > 5 \/ (r = 5 /\ q % 2 = 1) THEN q + 1 ELSE q
    IN  NatText(h \div 100) \o <<".">> \o <<Digits[((h \div 10) % 10) + 1], Digits[(h % 10) + 1]>>

Min(a, b) == IF a <= b THEN a ELSE b
Max(a, b) == IF a >= b THEN a ELSE b

\* the elements of a sequence
Range(seq) == {seq[i] : i \in 1..Len(seq)}

-----------------------------------------------------------------------------
(* models/models.py and utils/config.py                                    *)

\* RequestCategory, the values in declaration order
RequestCategory ==
    << <<"p","a","s","s","w","o","r","d","_","r","e","s","e","t">>, <<"s","o","f","t","w","a","r","e","_","i","n","s","t","a","l","l","a","t","i","o","n">>, <<"h","a","r","d","w","a","r","e","_","f","a","i","l","u","r","e">>,
       <<"n","e","t","w","o","r","k","_","c","o","n","n","e","c","t","i","v","i","t","y">>, <<"e","m","a","i","l","_","c","o","n","f","i","g","u","r","a","t","i","o","n">>, <<"s","e","c","u","r","i","t","y","_","i","n","c","i","d","e","n","t">>,
       <<"p","o","l","i","c","y","_","q","u","e","s","t","i","o","n">> >>

PASSWORD_RESET        == RequestCategory[1]
SOFTWARE_INSTALLATION == RequestCategory[2]
HARDWARE_FAILURE      == RequestCategory[3]
NETWORK_CONNECTIVITY  == RequestCategory[4]
EMAIL_CONFIGURATION   == RequestCategory[5]
SECURITY_INCIDENT     == RequestCategory[6]
POLICY_QUESTION       == RequestCategory[7]

\* Config.CLASSIFICATION_CONFIDENCE_THRESHOLD, in thousandths
CLASSIFICATION_CONFIDENCE_THRESHOLD == 800

\* Config.ESCALATION_KEYWORDS
ESCALATION_KEYWORDS ==
    << <<"u","r","g","e","n","t">>, <<"e","m","e","r","g","e","n","c","y">>, <<"c","r","i","t","i","c","a","l">>, <<"a","s","a","p">>, <<"i","m","m","e","d","i","a","t","e","l","y">>,
       <<"b","r","o","k","e","n">>, <<"c","r","a","s","h","e","d">>, <<"n","o","t"," ","w","o","r","k","i","n","g">>, <<"d","o","w","n">>, <<"f","a","i","l","e","d">> >>

NoClassification == [category |-> << >>, confidence |-> 0, reasoning |-> << >>]
NoEscalation == [should_escalate |-> FALSE, reason |-> << >>, urgency_level |-> "unset"]
NoResult == [status |-> "none"]

ClassificationResult(category, conf, reasoning) ==
    [category |-> category, confidence |-> conf, reasoning |-> reasoning]

EscalationDecision(should, reason, urgency) ==
    [should_escalate |-> should, reason |-> reason, urgency_level |-> urgency]

-----------------------------------------------------------------------------
(* The category file (data/categories.json): what construction reads       *)

\* A category file as the list of its "categories" entries, in file order
FullCategoryFile ==
    << [key |-> <<"p","a","s","s","w","o","r","d","_","r","e","s","e","t">>,
        triggers |-> << <<"M","u","l","t","i","p","l","e"," ","f","a","i","l","e","d"," ","a","t","t","e","m","p","t","s">>, <<"A","c","c","o","u","n","t"," ","l","o","c","k","e","d">> >>],
       [key |-> <<"s","o","f","t","w","a","r","e","_","i","n","s","t","a","l","l","a","t","i","o","n">>, triggers |-> << <<"A","d","m","i","n"," ","r","i","g","h","t","s"," ","r","e","q","u","i","r","e","d">> >>],
       [key |-> <<"h","a","r","d","w","a","r","e","_","f","a","i","l","u","r","e">>,      triggers |-> << <<"H","a","r","d","w","a","r","e"," ","d","a","m","a","g","e">> >>],
       [key |-> <<"n","e","t","w","o","r","k","_","c","o","n","n","e","c","t","i","v","i","t","y">>,  triggers |-> << <<"N","e","t","w","o","r","k"," ","o","u","t","a","g","e">> >>],
       [key |-> <<"e","m","a","i","l","_","c","o","n","f","i","g","u","r","a","t","i","o","n">>,   triggers |-> << >>],
       [key |-> <<"s","e","c","u","r","i","t","y","_","i","n","c","i","d","e","n","t">>,     triggers |-> << <<"D","a","t","a"," ","b","r","e","a","c","h">> >>],
       [key |-> <<"p","o","l","i","c","y","_","q","u","e","s","t","i","o","n">>,       triggers |-> << >>],
       [key |-> <<"g","e","n","e","r","a","l","_","i","n","q","u","i","r","y">>,       triggers |-> << <<"C","o","m","p","l","a","i","n","t">> >>] >>

\* a file whose "categories" object has no entry
EmptyCategoryFile == << >>

\* what open() finds at a path: no file, or a file with these entries
FileMissing == [found |-> FALSE, entries |-> << >>]
FileWith(entries) == [found |-> TRUE, entries |-> entries]

\* EscalationEngine._load_categories and _load_escalation_rules: the triggers of
\* every key of the file, or no rule at all when the file is not found
LoadEscalationRules(file) ==
    IF ~file.found THEN << >>
    ELSE [i \in 1..Len(file.entries) |->
             [key |-> file.entries[i].key, triggers |-> file.entries[i].triggers]]

\* escalation_rules.get(key, [])
RulesGet(rules, key) ==
    IF \E i \in 1..Len(rules) : rules[i].key = key
    THEN rules[CHOOSE i \in 1..Len(rules) : rules[i].key = key].triggers
    ELSE << >>

-----------------------------------------------------------------------------
(* EscalationEngine (core/escalation_logic.py)                             *)

\* the direct substring match alone
MatchesTriggerSubstringOnly(req, trigger) == Contains(Lower(req), Lower(trigger))

\* _matches_trigger
MatchesTrigger(req, trigger) ==
    LET request_lower == Lower(req)
        trigger_lower == Lower(trigger)
        trigger_words == Split(trigger_lower)
        request_words == Split(request_lower)
    IN  \/ Contains(request_lower, trigger_lower)
        \/ \A t \in 1..Len(trigger_words) :
              \E r \in 1..Len(request_words) :
                  Contains(request_words[r], trigger_words[t])

\* the keywords looked for in the request as typed, without case folding
CheckUrgentKeywordsAsTyped(req) ==
    SelectSeq(ESCALATION_KEYWORDS, LAMBDA kw : Contains(req, Lower(kw)))

\* _check_urgent_keywords
CheckUrgentKeywords(req) ==
    LET request_lower == Lower(req)
    IN  SelectSeq(ESCALATION_KEYWORDS, LAMBDA kw : Contains(request_lower, Lower(kw)))

multiple_issue_indicators ==
    << <<"a","n","d"," ","a","l","s","o">>, <<"i","n"," ","a","d","d","i","t","i","o","n">>, <<"f","u","r","t","h","e","r","m","o","r","e">>, <<"m","o","r","e","o","v","e","r">>,
       <<"a","n","o","t","h","e","r"," ","i","s","s","u","e">>, <<"a","l","s","o">>, <<"p","l","u","s">>, <<"a","s"," ","w","e","l","l"," ","a","s">> >>

\* no request taken to hold several issues
ContainsMultipleIssuesNever(req) == FALSE

\* _contains_multiple_issues
ContainsMultipleIssues(req) ==
    LET request_lower == Lower(req)
    IN  \E i \in 1..Len(multiple_issue_indicators) :
            Contains(request_lower, multiple_issue_indicators[i])

high_priority_categories == <<SECURITY_INCIDENT, HARDWARE_FAILURE>>

business_impact_keywords ==
    << <<"p","r","e","s","e","n","t","a","t","i","o","n">>, <<"m","e","e","t","i","n","g">>, <<"d","e","a","d","l","i","n","e">>, <<"c","l","i","e","n","t">>, <<"c","u","s","t","o","m","e","r">>,
       <<"r","e","v","e","n","u","e">>, <<"b","u","s","i","n","e","s","s"," ","c","r","i","t","i","c","a","l">>, <<"p","r","o","d","u","c","t","i","o","n">>, <<"s","e","r","v","e","r">> >>

\* the business-impact keywords found in the request, last listed first
BusinessImpactFoundLastFirst(req) ==
    LET found == SelectSeq(business_impact_keywords, LAMBDA kw : Contains(Lower(req), Lower(kw)))
    IN  [i \in 1..Len(found) |-> found[Len(found) + 1 - i]]

\* the business-impact keywords found in the request, in list order
BusinessImpactFound(req) ==
    SelectSeq(business_impact_keywords, LAMBDA kw : Contains(Lower(req), Lower(kw)))

\* the triggers of the category that match the request, in rule order
TriggersMatched(req, category) ==
    SelectSeq(RulesGet(escalation_rules, category), LAMBDA t : MatchesTrigger(req, t))

Prefixed(prefix, items) == [i \in 1..Len(items) |-> prefix \o items[i]]

\* lines 38-43: every matching trigger appends a reason and sets urgency "high"
RuleCategoryTriggers ==
    /\ pc = "esc_triggers"
    /\ LET matched == TriggersMatched(request.request, classification.category)
       IN  /\ reasons' = reasons \o Prefixed(<<"C","a","t","e","g","o","r","y"," ","t","r","i","g","g","e","r",":"," ">>, matched)
           /\ urgency_level' = IF matched # << >> THEN "high" ELSE urgency_level
    /\ pc' = "esc_urgent"
    /\ UNCHANGED <<config, auxVars, clsVars, retVars, ioVars, escalation>>

\* lines 45-49
RuleUrgentKeywords ==
    /\ pc = "esc_urgent"
    /\ LET urgent_keywords_found == CheckUrgentKeywords(request.request)
       IN  /\ reasons' = reasons \o Prefixed(<<"U","r","g","e","n","t"," ","k","e","y","w","o","r","d",":"," ">>, urgent_keywords_found)
           /\ urgency_level' = IF urgent_keywords_found # << >> THEN "critical"
                               ELSE urgency_level
    /\ pc' = "esc_confidence"
    /\ UNCHANGED <<config, auxVars, clsVars, retVars, ioVars, escalation>>

\* lines 51-53
RuleLowConfidence ==
    /\ pc = "esc_confidence"
    /\ reasons' = IF classification.confidence < CLASSIFICATION_CONFIDENCE_THRESHOLD
                  THEN Append(reasons, <<"L","o","w"," ","c","l","a","s","s","i","f","i","c","a","t","i","o","n"," ","c","o","n","f","i","d","e","n","c","e",":"," ">>
                                       \o Format2f(classification.confidence))
                  ELSE reasons
    /\ pc' = "esc_priority"
    /\ UNCHANGED <<config, auxVars, clsVars, retVars, ioVars, urgency_level, escalation>>

\* lines 55-63
RuleHighPriority ==
    /\ pc = "esc_priority"
    /\ IF classification.category \in Range(high_priority_categories)
       THEN /\ reasons' = Append(reasons, <<"H","i","g","h","-","p","r","i","o","r","i","t","y"," ","c","a","t","e","g","o","r","y",":"," ">>
                                          \o classification.category)
            /\ urgency_level' = "critical"
       ELSE UNCHANGED <<reasons, urgency_level>>
    /\ pc' = "esc_multi"
    /\ UNCHANGED <<config, auxVars, clsVars, retVars, ioVars, escalation>>

\* lines 65-67
RuleMultipleIssues ==
    /\ pc = "esc_multi"
    /\ reasons' = IF ContainsMultipleIssues(request.request)
                  THEN Append(reasons, <<"M","u","l","t","i","p","l","e"," ","i","s","s","u","e","s"," ","d","e","t","e","c","t","e","d"," ","i","n"," ","s","i","n","g","l","e"," ","r","e","q","u","e","s","t">>)
                  ELSE reasons
    /\ pc' = "esc_business"
    /\ UNCHANGED <<config, auxVars, clsVars, retVars, ioVars, urgency_level, escalation>>

\* the business-impact rule setting the urgency to high whatever it was
BusinessUrgencyAlwaysHigh(urgency) == "high"

\* the urgency the business-impact rule leaves (lines 78-79)
BusinessUrgency(urgency) == IF urgency = "normal" THEN "high" ELSE urgency

\* lines 69-80: the first keyword found appends one reason, then the loop breaks
RuleBusinessImpact ==
    /\ pc = "esc_business"
    /\ LET found == BusinessImpactFound(request.request)
       IN  IF found # << >>
           THEN /\ reasons' = Append(reasons, <<"B","u","s","i","n","e","s","s"," ","i","m","p","a","c","t"," ","i","n","d","i","c","a","t","o","r",":"," ">> \o found[1])
                /\ urgency_level' = BusinessUrgency(urgency_level)
           ELSE UNCHANGED <<reasons, urgency_level>>
    /\ pc' = "esc_decide"
    /\ UNCHANGED <<config, auxVars, clsVars, retVars, ioVars, escalation>>

NoEscalationReason == <<"R","e","q","u","e","s","t"," ","c","a","n"," ","b","e"," ","h","a","n","d","l","e","d"," ","t","h","r","o","u","g","h"," ","a","u","t","o","m","a","t","e","d"," ","r","e","s","p","o","n","s","e">>

\* escalation asked only for more than one reason
ReasonsEscalateAboveOne(rs) == Len(rs) > 1

\* should_escalate = len(reasons) > 0 (line 82)
ReasonsEscalate(rs) == Len(rs) > 0

\* lines 82-93
EscalationReturn ==
    /\ pc = "esc_decide"
    /\ LET should_escalate == ReasonsEscalate(reasons)
           reason == IF should_escalate THEN Join(<<";"," ">>, reasons) ELSE NoEscalationReason
       IN  escalation' = EscalationDecision(should_escalate, reason, urgency_level)
    /\ pc' = "escalated"
    /\ UNCHANGED <<config, auxVars, clsVars, retVars, ioVars, reasons, urgency_level>>

EscalationNext ==
    \/ RuleCategoryTriggers
    \/ RuleUrgentKeywords
    \/ RuleLowConfidence
    \/ RuleHighPriority
    \/ RuleMultipleIssues
    \/ RuleBusinessImpact
    \/ EscalationReturn

-----------------------------------------------------------------------------
(* ResponseGenerator (core/response_generator.py): text clean-up           *)

\* lines 135-140: strip each line, keep the non-empty ones and one empty line
\* after a non-empty one
RECURSIVE CleanLines(_, _, _)
CleanLines(lines, i, cleaned_lines) ==
    IF i > Len(lines) THEN cleaned_lines
    ELSE LET line == Strip(lines[i])
         IN  IF line # << >> THEN CleanLines(lines, i + 1, Append(cleaned_lines, line))
             ELSE IF cleaned_lines # << >> /\ cleaned_lines[Len(cleaned_lines)] # << >>
                  THEN CleanLines(lines, i + 1, Append(cleaned_lines, << >>))
                  ELSE CleanLines(lines, i + 1, cleaned_lines)

\* lines 146-147: while '\n\n\n' in s: s = s.replace('\n\n\n', '\n\n')
RECURSIVE CollapseBlankLines(_)
CollapseBlankLines(s) ==
    IF Contains(s, <<"\n","\n","\n">>)
    THEN CollapseBlankLines(Replace(s, <<"\n","\n","\n">>, <<"\n","\n">>))
    ELSE s

\* _clean_response_formatting
CleanResponseFormatting(response) ==
    IF response = << >> THEN << >>
    ELSE LET r1 == Replace(response, <<"\\","n">>, <<"\n">>)
             r2 == Replace(r1, <<"*","*">>, << >>)
             r3 == Replace(r2, <<"#","#">>, << >>)
             r4 == Replace(r3, <<"#","#","#">>, << >>)
             r5 == Replace(r4, <<"*">>, << >>)
             cleaned_lines == CleanLines(SplitOn(r5, "\n"), 1, << >>)
             cleaned_response == CollapseBlankLines(Join(<<"\n">>, cleaned_lines))
         IN  Strip(Replace(cleaned_response, <<"\\","n">>, <<"\n">>))

\* _generate_response when the service answers with `content`:
\* _clean_response_formatting(content.strip())
GenerateResponseText(content) == CleanResponseFormatting(Strip(content))

-----------------------------------------------------------------------------
(* LLMRequestClassifier (core/classifier.py)                               *)

\* the fallback categories of _load_categories (lines 52-66)
FallbackCategories ==
    << [name |-> <<"P","a","s","s","w","o","r","d"," ","R","e","s","e","t">>, enum |-> PASSWORD_RESET,
        triggers |-> << <<"M","u","l","t","i","p","l","e"," ","f","a","i","l","e","d"," ","a","t","t","e","m","p","t","s">> >>],
       [name |-> <<"S","o","f","t","w","a","r","e"," ","I","n","s","t","a","l","l","a","t","i","o","n">>, enum |-> SOFTWARE_INSTALLATION,
        triggers |-> << <<"A","d","m","i","n"," ","r","i","g","h","t","s"," ","r","e","q","u","i","r","e","d">> >>] >>

\* lines 34-48: the entries whose key is a RequestCategory value, under their
\* readable name, in file order
RECURSIVE LoadedCategories(_, _)
LoadedCategories(entries, i) ==
    IF i > Len(entries) THEN << >>
    ELSE IF entries[i].key \in Range(RequestCategory)
         THEN << [name |-> Title(Replace(entries[i].key, <<"_">>, <<" ">>)),
                  enum |-> entries[i].key,
                  triggers |-> entries[i].triggers] >>
              \o LoadedCategories(entries, i + 1)
         ELSE LoadedCategories(entries, i + 1)

\* _load_categories: a file that cannot be opened gives the fallback categories
LoadCategories(file) ==
    IF ~file.found THEN FallbackCategories ELSE LoadedCategories(file.entries, 1)

CategoryNames(cats) == [i \in 1..Len(cats) |-> cats[i].name]

\* self.categories[name]['enum']
EnumOf(cats, name) == cats[CHOOSE i \in 1..Len(cats) : cats[i].name = name].enum

\* the test of line 97: either name contains the other, case folded
CloseMatch(category_name, predicted) ==
    \/ Contains(Lower(predicted), Lower(category_name))
    \/ Contains(Lower(category_name), Lower(predicted))

\* what an operation that may raise gives: a value, or the exception raised
Returned(v) == [raised |-> FALSE, value |-> v]
Raised(e) == [raised |-> TRUE, value |-> e]

IndexError == <<"l","i","s","t"," ","i","n","d","e","x"," ","o","u","t"," ","o","f"," ","r","a","n","g","e">>

\* lines 94-102: the validated category name; IndexError when there is no category
ValidateCategory(cats, predicted) ==
    LET names == CategoryNames(cats)
        close == {i \in 1..Len(names) : CloseMatch(names[i], predicted)}
    IN  IF predicted \in Range(names) THEN Returned(predicted)
        ELSE IF close # {} THEN Returned(names[CHOOSE i \in close : \A j \in close : i <= j])
        ELSE IF names # << >> THEN Returned(names[1])
        ELSE Raised(IndexError)

\* the digits of s read as a natural number
RECURSIVE NatValue(_)
NatValue(s) ==
    IF s = << >> THEN 0 ELSE 10 * NatValue(SubSeq(s, 1, Len(s) - 1)) + DigitValue(s[Len(s)])

IsDigits(s) == \A i \in 1..Len(s) : IsDigit(s[i])

\* the first three decimals of a fraction's digits, as thousandths
Thousandths(frac) ==
    NatValue(SubSeq(frac \o <<"0","0","0">>, 1, 3))

\* float(text) for a decimal numeral [sign] digits [. digits] (no exponent), inf and
\* nan: whether it parses, and the value rounded down to thousandths
ParseFloat(text) ==
    LET t == Strip(text)
        signed == t # << >> /\ t[1] \in {"+", "-"}
        body == IF signed THEN Tail(t) ELSE t
        sign == IF signed /\ t[1] = "-" THEN -1 ELSE 1
        dots == {i \in 1..Len(body) : body[i] = "."}
        dot == IF dots = {} THEN Len(body) + 1 ELSE CHOOSE i \in dots : TRUE
        whole == SubSeq(body, 1, dot - 1)
        frac == SubSeq(body, dot + 1, Len(body))
        numeral == /\ Cardinality(dots) <= 1
                   /\ IsDigits(whole) /\ IsDigits(frac)
                   /\ Len(whole) + Len(frac) > 0
    IN  IF Lower(body) \in { <<"i","n","f">>, <<"i","n","f","i","n","i","t","y">> }
        THEN [ok |-> TRUE, nan |-> FALSE, value |-> sign * 1000000]
        ELSE IF Lower(body) = <<"n","a","n">>
        THEN [ok |-> TRUE, nan |-> TRUE, value |-> 0]
        ELSE IF numeral
        THEN [ok |-> TRUE, nan |-> FALSE,
              value |-> sign * (1000 * NatValue(whole) + Thousandths(frac))]
        ELSE [ok |-> FALSE, nan |-> FALSE, value |-> 0]

\* the confidence left as parsed
ClampConfidenceOmitted(x) == x

\* max(0.0, min(1.0, x)) of line 116; min(1.0, nan) is 1.0
ClampConfidence(x) == Max(0, Min(1000, x))

DefaultConfidence == 800

\* lines 114-118
ParseConfidence(confidence_reply) ==
    LET parsed == ParseFloat(confidence_reply)
    IN  IF ~parsed.ok THEN DefaultConfidence
        ELSE IF parsed.nan THEN 1000
        ELSE ClampConfidence(parsed.value)

\* keyword_mapping of _fallback_keyword_classification, in insertion order
keyword_mapping ==
    << [category |-> <<"P","a","s","s","w","o","r","d"," ","R","e","s","e","t">>,
        keywords |-> << <<"p","a","s","s","w","o","r","d">>, <<"l","o","g","i","n">>, <<"f","o","r","g","o","t">>, <<"r","e","s","e","t">>, <<"a","c","c","e","s","s">>, <<"a","c","c","o","u","n","t">> >>],
       [category |-> <<"S","o","f","t","w","a","r","e"," ","I","n","s","t","a","l","l","a","t","i","o","n">>,
        keywords |-> << <<"i","n","s","t","a","l","l">>, <<"s","o","f","t","w","a","r","e">>, <<"p","r","o","g","r","a","m">>, <<"a","p","p","l","i","c","a","t","i","o","n">>, <<"a","p","p">>, <<"u","p","d","a","t","e">> >>],
       [category |-> <<"N","e","t","w","o","r","k"," ","I","s","s","u","e","s">>,
        keywords |-> << <<"i","n","t","e","r","n","e","t">>, <<"w","i","f","i">>, <<"n","e","t","w","o","r","k">>, <<"c","o","n","n","e","c","t","i","o","n">>, <<"s","l","o","w">> >>],
       [category |-> <<"H","a","r","d","w","a","r","e"," ","S","u","p","p","o","r","t">>,
        keywords |-> << <<"c","o","m","p","u","t","e","r">>, <<"l","a","p","t","o","p">>, <<"m","o","u","s","e">>, <<"k","e","y","b","o","a","r","d">>, <<"s","c","r","e","e","n">>, <<"h","a","r","d","w","a","r","e">> >>],
       [category |-> <<"E","m","a","i","l"," ","C","o","n","f","i","g","u","r","a","t","i","o","n">>,
        keywords |-> << <<"e","m","a","i","l">>, <<"o","u","t","l","o","o","k">>, <<"m","a","i","l">>, <<"s","m","t","p">>, <<"i","m","a","p">> >>] >>

\* sum(1 for keyword in keywords if keyword in request_lower)
KeywordScore(keywords, request_lower) ==
    Cardinality({k \in 1..Len(keywords) : Contains(request_lower, keywords[k])})

\* lines 157-165: the best category and score after the mapping entries from i on
RECURSIVE BestFrom(_, _, _, _, _)
BestFrom(cats, request_lower, i, best_category, best_score) ==
    IF i > Len(keyword_mapping) THEN [category |-> best_category, score |-> best_score]
    ELSE LET entry == keyword_mapping[i]
             score == KeywordScore(entry.keywords, request_lower)
         IN  IF entry.category \in Range(CategoryNames(cats)) /\ score > best_score
             THEN BestFrom(cats, request_lower, i + 1, entry.category, score)
             ELSE BestFrom(cats, request_lower, i + 1, best_category, best_score)

\* confidence = min(0.9, best_score * 0.2) if best_score > 0 else 0.3
FallbackConfidence(best_score) ==
    IF best_score > 0 THEN Min(900, best_score * 200) ELSE 300

\* _fallback_keyword_classification: the result, or IndexError when the best
\* category is not loaded and there is no first category to fall back to
FallbackKeywordClassification(cats, request_text) ==
    LET best == BestFrom(cats, Lower(request_text), 1, <<"G","e","n","e","r","a","l"," ","I","n","q","u","i","r","y">>, 0)
        reasoning == <<"C","l","a","s","s","i","f","i","e","d"," ","b","a","s","e","d"," ","o","n"," ","k","e","y","w","o","r","d"," ","m","a","t","c","h","i","n","g"," ","(","s","c","o","r","e",":"," ">>
                     \o NatText(best.score) \o <<")">>
    IN  IF best.category \in Range(CategoryNames(cats))
        THEN Returned(ClassificationResult(EnumOf(cats, best.category),
                                           FallbackConfidence(best.score), reasoning))
        ELSE IF cats # << >>
        THEN Returned(ClassificationResult(cats[1].enum, FallbackConfidence(best.score),
                                           reasoning))
        ELSE Raised(IndexError)

\* the replies the completion service may give to the three prompts of classify
SampleCategoryReplies ==
    << <<"P","a","s","s","w","o","r","d"," ","R","e","s","e","t">>, <<"*","*","E","m","a","i","l"," ","C","o","n","f","i","g","u","r","a","t","i","o","n","*","*","\n">>, <<"h","a","r","d","w","a","r","e">>,
       <<"I"," ","t","h","i","n","k"," ","i","t"," ","i","s"," ","a"," ","S","e","c","u","r","i","t","y"," ","I","n","c","i","d","e","n","t",".">>, <<"U","n","k","n","o","w","n">>, << >> >>

SampleConfidenceReplies ==
    << <<"0",".","9","5">>, <<"h","i","g","h">>, <<"1",".","5">>, <<"0",".","5">>, <<"-","0",".","2">>, <<" ",".","8"," ">>, <<"n","a","n">> >>

SampleReasoningReplies ==
    << <<"T","h","e"," ","u","s","e","r"," ","c","a","n","n","o","t"," ","s","i","g","n"," ","i","n","."," ">>, << >> >>

\* how many of the sample replies to each prompt are drawn
MaxCategoryReplies == 5
MaxConfidenceReplies == 4
MaxReasoningReplies == 1

FirstOf(samples, n) == {samples[i] : i \in 1..Min(n, Len(samples))}

CategoryReplies == FirstOf(SampleCategoryReplies, MaxCategoryReplies)
ConfidenceReplies == FirstOf(SampleConfidenceReplies, MaxConfidenceReplies)
ReasoningReplies == FirstOf(SampleReasoningReplies, MaxReasoningReplies)

\* classify gives up the primary path (line 139) and runs the keyword fallback,
\* whose IndexError escapes classify
ClassifyFallback ==
    LET fallback == FallbackKeywordClassification(categories, request.request)
    IN  IF fallback.raised
        THEN /\ exception' = fallback.value
             /\ pc' = "except"
             /\ UNCHANGED classification
        ELSE /\ classification' = fallback.value
             /\ pc' = "classified"
             /\ UNCHANGED exception

\* lines 88-102: the category prompt is answered, or the call fails
ClassifyCategory ==
    /\ pc = "classify"
    /\ \/ /\ calls' = Append(calls, "complete_fail")
          /\ ClassifyFallback
          /\ UNCHANGED <<predicted_category, confidence_response, confidence>>
       \/ \E content \in CategoryReplies :
             LET validated == ValidateCategory(categories, Strip(GenerateResponseText(content)))
             IN  /\ calls' = Append(calls, "complete_ok")
                 /\ IF validated.raised
                    THEN /\ ClassifyFallback
                         /\ UNCHANGED <<predicted_category, confidence_response,
                                        confidence>>
                    ELSE /\ predicted_category' = validated.value
                         /\ pc' = "classify_confidence"
                         /\ UNCHANGED <<confidence_response, confidence, classification,
                                        exception>>
    /\ UNCHANGED <<config, auxVars, retVars, escVars, request, issued, response_text,
                   result>>

\* lines 104-118: the confidence prompt is answered, or the call fails
ClassifyConfidence ==
    /\ pc = "classify_confidence"
    /\ \/ /\ calls' = Append(calls, "complete_fail")
          /\ ClassifyFallback
          /\ UNCHANGED <<confidence_response, confidence>>
       \/ \E content \in ConfidenceReplies :
             /\ calls' = Append(calls, "complete_ok")
             /\ confidence_response' = GenerateResponseText(content)
             /\ confidence' = ParseConfidence(confidence_response')
             /\ pc' = "classify_reasoning"
             /\ UNCHANGED <<classification, exception>>
    /\ UNCHANGED <<config, auxVars, retVars, escVars, request, issued, response_text,
                   result,
                   predicted_category>>

\* lines 120-137: the reasoning prompt is answered, or the call fails
ClassifyReasoning ==
    /\ pc = "classify_reasoning"
    /\ \/ /\ calls' = Append(calls, "complete_fail")
          /\ ClassifyFallback
       \/ \E content \in ReasoningReplies :
             /\ calls' = Append(calls, "complete_ok")
             /\ classification' =
                   ClassificationResult(EnumOf(categories, predicted_category), confidence,
                                        Strip(GenerateResponseText(content)))
             /\ pc' = "classified"
             /\ UNCHANGED exception
    /\ UNCHANGED <<config, auxVars, retVars, escVars, request, issued, response_text,
                   result,
                   predicted_category, confidence_response, confidence>>

ClassifyNext ==
    \/ ClassifyCategory
    \/ ClassifyConfidence
    \/ ClassifyReasoning

-----------------------------------------------------------------------------
(* LLMKnowledgeRetriever (core/knowledge_retriever.py)                     *)

\* knowledge chunks as _load_knowledge_base leaves them, in load order
SampleChunks ==
    << [content |-> <<"P","a","s","s","w","o","r","d"," ","r","e","s","e","t"," ","p","o","r","t","a","l">>, source |-> <<"k","n","o","w","l","e","d","g","e","_","b","a","s","e",".","m","d">>,
        section |-> <<"P","a","s","s","w","o","r","d">>],
       [content |-> <<"V","P","N"," ","a","n","d"," ","n","e","t","w","o","r","k"," ","s","e","t","u","p">>, source |-> <<"k","n","o","w","l","e","d","g","e","_","b","a","s","e",".","m","d">>,
        section |-> <<"N","e","t","w","o","r","k">>],
       [content |-> <<"R","e","s","e","t"," ","y","o","u","r"," ","e","m","a","i","l"," ","p","a","s","s","w","o","r","d">>, source |-> <<"c","o","m","p","a","n","y","_","i","t","_","p","o","l","i","c","i","e","s",".","m","d">>,
        section |-> <<"E","m","a","i","l">>],
       [content |-> <<"I","n","s","t","a","l","l"," ","s","o","f","t","w","a","r","e"," ","f","r","o","m"," ","t","h","e"," ","p","o","r","t","a","l">>, source |-> <<"i","n","s","t","a","l","l","a","t","i","o","n","_","g","u","i","d","e","s",".","j","s","o","n">>,
        section |-> <<"s","o","f","t","w","a","r","e",".","s","t","e","p","s">>],
       [content |-> <<"S","e","r","v","e","r"," ","p","a","s","s","w","o","r","d"," ","a","n","d"," ","l","o","g","i","n"," ","p","o","l","i","c","y">>, source |-> <<"c","o","m","p","a","n","y","_","i","t","_","p","o","l","i","c","i","e","s",".","m","d">>,
        section |-> <<"S","e","r","v","e","r","s">>] >>

\* a knowledge base of many short articles
LargeKnowledgeBase(n) ==
    [i \in 1..n |-> [content |-> <<"A","r","t","i","c","l","e"," ">> \o NatText(i), source |-> <<"k","n","o","w","l","e","d","g","e","_","b","a","s","e",".","m","d">>,
                     section |-> <<"A","r","t","i","c","l","e","s">>]]

\* line 156: the summaries of the first 20 chunks go into the ranking prompt
SummaryWindow == 20

\* lines 150-156: the chunks whose summary the ranking prompt presents
SummarizedChunks(chunks) == SubSeq(chunks, 1, IF Len(chunks) < SummaryWindow THEN Len(chunks)
                                              ELSE SummaryWindow)

RetrievalResult(chunk, score) ==
    [content |-> chunk.content, source |-> chunk.source, relevance_score |-> score]

\* chunks[idx] for a Python index counted from 0, a negative one from the end
ChunkAt(chunks, idx) == IF idx >= 0 THEN chunks[idx + 1] ELSE chunks[Len(chunks) + idx + 1]

\* lines 268-282: one result for every hit (score, idx) of the index search whose
\* idx is below the number of chunks
VectorResults(chunks, hits) ==
    LET kept == SelectSeq(hits, LAMBDA h : h.idx < Len(chunks))
    IN  [i \in 1..Len(kept) |-> RetrievalResult(ChunkAt(chunks, kept[i].idx), kept[i].score)]

\* re.findall(r'\d+', s): the maximal runs of digits, left to right
RECURSIVE FindNumbersFrom(_, _, _)
FindNumbersFrom(s, i, run) ==
    IF i > Len(s) THEN (IF run = << >> THEN << >> ELSE <<run>>)
    ELSE IF IsDigit(s[i]) THEN FindNumbersFrom(s, i + 1, Append(run, s[i]))
    ELSE (IF run = << >> THEN << >> ELSE <<run>>) \o FindNumbersFrom(s, i + 1, << >>)

FindNumbers(s) == FindNumbersFrom(s, 1, << >>)

\* seq[:n]
Take(seq, n) == SubSeq(seq, 1, Min(n, Len(seq)))

\* lines 171-176: the chunk indices read from the reply, at most three
RelevantIndices(chunks, response) ==
    IF Lower(response) = <<"n","o","n","e">> THEN << >>
    ELSE LET numbers == FindNumbers(response)
             values == [i \in 1..Len(numbers) |-> NatValue(numbers[i])]
         IN  Take(SelectSeq(values, LAMBDA n : n < Len(chunks)), 3)

\* every result given the relevance 1.0
SemanticScoreFlat(k) == 1000

\* relevance_score = 1.0 - (len(results) * 0.1), for the k-th result from 0
SemanticScore(k) == 1000 - (k * 100)

\* lines 178-191
SemanticResults(chunks, response) ==
    LET relevant_indices == RelevantIndices(chunks, response)
    IN  [k \in 1..Len(relevant_indices) |->
            RetrievalResult(ChunkAt(chunks, relevant_indices[k]), SemanticScore(k - 1))]

\* the words looked for in the content as written, not lowercased
ChunkScoreCaseKept(chunk, query_words) ==
    Cardinality({w \in 1..Len(query_words) : Contains(chunk.content, query_words[w])})

\* score = sum(1 for word in query_words if word in content_lower)
ChunkScore(chunk, query_words) ==
    Cardinality({w \in 1..Len(query_words) : Contains(Lower(chunk.content), query_words[w])})

SortByScoreOmitted(scored) == scored

\* scored_chunks.sort(key=score, reverse=True): stable, highest score first
RECURSIVE SortByScore(_)
SortByScore(scored) ==
    IF scored = << >> THEN << >>
    ELSE LET best == CHOOSE i \in 1..Len(scored) :
                        /\ \A j \in 1..Len(scored) : scored[j].score <= scored[i].score
                        /\ \A j \in 1..(i - 1) : scored[j].score < scored[i].score
             rest == [j \in 1..(Len(scored) - 1) |-> IF j < best THEN scored[j] ELSE scored[j + 1]]
         IN  <<scored[best]>> \o SortByScore(rest)

\* line 207: a chunk is kept when its score is positive
KeepsChunk(score) == score > 0

\* _fallback_keyword_search
FallbackKeywordSearchNothing(chunks, query) == << >>

FallbackKeywordSearch(chunks, query) ==
    LET query_words == Split(Lower(query))
        all == [i \in 1..Len(chunks) |->
                   [score |-> ChunkScore(chunks[i], query_words), chunk |-> chunks[i]]]
        scored_chunks == SortByScore(SelectSeq(all, LAMBDA sc : KeepsChunk(sc.score)))
        top == Take(scored_chunks, 3)
    IN  [i \in 1..Len(top) |->
            RetrievalResult(top[i].chunk, (top[i].score * 1000) \div Len(query_words))]

\* the answers of the index search for n chunks and top_k = 3: cosine scores in
\* descending order, and idx -1 with the lowest float where the index holds fewer
\* than three vectors
FaissNoHit == [score |-> 0 - 340282346, idx |-> 0 - 1]

SampleSearches(n) ==
    LET pad(hits) == hits \o [i \in 1..(3 - Len(hits)) |-> FaissNoHit]
    IN  IF n >= 3
        THEN { << [score |-> 910, idx |-> 0], [score |-> 640, idx |-> 2],
                  [score |-> 120, idx |-> 1] >>,
               << [score |-> 500, idx |-> n - 1], [score |-> 500, idx |-> 1],
                  [score |-> 0 - 200, idx |-> 0] >> }
        ELSE { pad([i \in 1..n |-> [score |-> 700 - (100 * i), idx |-> n - i]]) }

\* the replies the completion service may give to the ranking prompt
SampleRankingReplies ==
    << <<"n","o","n","e">>, <<"2",","," ","0">>, <<"N","o"," ","r","e","l","e","v","a","n","t"," ","c","h","u","n","k",".">>, <<"1"," ","a","n","d"," ","1","7">>, <<"N","o","n","e">>, <<"3",","," ","3",","," ","0",","," ","1">>,
       <<"2","1",","," ","2">> >>

\* how many of the sample ranking replies are drawn
MaxRankingReplies == 7

RankingReplies == FirstOf(SampleRankingReplies, MaxRankingReplies)

\* line 141-142
RetrieveEmpty ==
    /\ pc = "retrieve"
    /\ knowledge_chunks = << >>
    /\ retrieved' = << >>
    /\ pc' = "retrieved"
    /\ UNCHANGED <<config, auxVars, clsVars, escVars, ioVars, tiers, vector_results, llm_response>>

\* the early return of the vector results left out
ReturnsEarlyNever(results) == FALSE

\* line 146: if vector_results: return vector_results
ReturnsEarly(results) == results # << >>

\* lines 144-147 with _vector_search (lines 257-285): no index, a failed embedding
\* call, or the hits of the index
VectorSearch ==
    /\ pc = "retrieve"
    /\ knowledge_chunks # << >>
    /\ tiers' = Append(tiers, "vector")
    /\ \/ /\ ~faiss_index
          /\ vector_results' = << >>
          /\ UNCHANGED calls
       \/ /\ faiss_index
          /\ calls' = Append(calls, "embed_fail")
          /\ vector_results' = << >>
       \/ /\ faiss_index
          /\ calls' = Append(calls, "embed_ok")
          /\ \E hits \in SampleSearches(Len(knowledge_chunks)) :
                vector_results' = VectorResults(knowledge_chunks, hits)
    /\ IF ReturnsEarly(vector_results')
       THEN /\ retrieved' = vector_results'
            /\ pc' = "retrieved"
       ELSE /\ pc' = "retrieve_semantic"
            /\ UNCHANGED retrieved
    /\ UNCHANGED <<config, auxVars, clsVars, escVars, request, issued, exception,
                   response_text,
                   result, llm_response>>

\* lines 149-196: the ranking prompt is answered and its results returned, or the
\* call fails and the keyword search is left to run
SemanticRank ==
    /\ pc = "retrieve_semantic"
    /\ tiers' = Append(tiers, "semantic")
    /\ \/ /\ calls' = Append(calls, "complete_fail")
          /\ pc' = "retrieve_keyword"
          /\ UNCHANGED <<retrieved, llm_response>>
       \/ \E content \in RankingReplies :
             /\ calls' = Append(calls, "complete_ok")
             /\ llm_response' = GenerateResponseText(content)
             /\ retrieved' = SemanticResults(knowledge_chunks, llm_response')
             /\ pc' = "retrieved"
    /\ UNCHANGED <<config, auxVars, clsVars, escVars, request, issued, exception,
                   response_text,
                   result, vector_results>>

\* lines 193-196: the except branch returns _fallback_keyword_search(query)
KeywordSearch ==
    /\ pc = "retrieve_keyword"
    /\ tiers' = Append(tiers, "keyword")
    /\ retrieved' = FallbackKeywordSearch(knowledge_chunks, request.request)
    /\ pc' = "retrieved"
    /\ UNCHANGED <<config, auxVars, clsVars, escVars, ioVars, vector_results, llm_response>>

RetrieveNext ==
    \/ RetrieveEmpty
    \/ VectorSearch
    \/ SemanticRank
    \/ KeywordSearch

-----------------------------------------------------------------------------
(* Inputs                                                                  *)

SampleRequests ==
    << <<"H","o","w"," ","d","o"," ","I"," ","c","h","a","n","g","e"," ","m","y"," ","d","e","s","k","t","o","p"," ","w","a","l","l","p","a","p","e","r","?">>,
       <<"M","y"," ","s","e","r","v","e","r"," ","i","s"," ","d","o","w","n"," ","a","n","d"," ","I"," ","h","a","v","e"," ","a"," ","c","l","i","e","n","t"," ","m","e","e","t","i","n","g",","," ","p","l","e","a","s","e"," ","h","e","l","p"," ","u","r","g","e","n","t","l","y","!">>,
       <<"I"," ","f","o","r","g","o","t"," ","m","y"," ","p","a","s","s","w","o","r","d"," ","a","n","d"," ","c","a","n","'","t"," ","l","o","g"," ","i","n">>,
       <<"L","o","c","k","e","d"," ","a","c","c","o","u","n","t",","," ","M","u","l","t","i","p","l","e"," ","F","A","I","L","E","D"," ","a","t","t","e","m","p","t","s">>,
       <<"A","l","s","o"," ","n","e","e","d"," ","a","d","m","i","n"," ","r","i","g","h","t","s"," ","f","o","r"," ","t","h","e"," ","i","n","s","t","a","l","l">>,
       <<"C","l","i","e","n","t"," ","p","r","e","s","e","n","t","a","t","i","o","n"," ","d","e","a","d","l","i","n","e">>,
       <<"f","o","r","g","o","t"," ","p","a","s","s","w","o","r","d"," ","l","o","g","i","n"," ","r","e","s","e","t">>,
       <<"w","i","f","i"," ","n","e","t","w","o","r","k"," ","i","s"," ","s","l","o","w">>,
       <<"l","o","c","k","e","d"," ","o","u","t"," ","o","f"," ","m","y"," ","a","c","c","o","u","n","t">>,
       <<"i","n","s","t","a","l","l"," ","p","a","s","s","w","o","r","d">>,
       <<" "," ">>,
       <<"l","a","p","t","o","p"," ","s","c","r","e","e","n"," ","f","l","i","c","k","e","r","s">>,
       <<"o","u","t","l","o","o","k"," ","s","e","t","u","p">>,
       <<"D","a","t","a"," ","b","r","e","a","c","h"," ","i","n"," ","p","r","o","d","u","c","t","i","o","n"," ","p","l","u","s"," ","e","m","a","i","l"," ","d","o","w","n">> >>

\* how many of the sample requests are drawn
MaxRequests == 13

Requests == {SampleRequests[i] : i \in 1..Min(MaxRequests, Len(SampleRequests))}

SampleConfidences == <<950, 800, 790, 300, 0, 1000>>

\* how many of the sample confidences are drawn
MaxConfidences == 5

Confidences == {SampleConfidences[i] : i \in 1..Min(MaxConfidences, Len(SampleConfidences))}

-----------------------------------------------------------------------------
(* ResponseGenerator.generate_response (core/response_generator.py)        *)

\* _generate_fallback_response
GenerateFallbackResponseRawName(category, decision) ==
    <<"T","h","a","n","k"," ","y","o","u"," ","f","o","r"," ","c","o","n","t","a","c","t","i","n","g"," ","I","T"," ","s","u","p","p","o","r","t"," ","r","e","g","a","r","d","i","n","g"," ","y","o","u","r"," ">> \o category \o <<" ","i","s","s","u","e",".","\n","\n">>
    \o <<"I"," ","a","p","o","l","o","g","i","z","e",","," ","b","u","t"," ","I","'","m"," ","e","x","p","e","r","i","e","n","c","i","n","g"," ","t","e","c","h","n","i","c","a","l"," ","d","i","f","f","i","c","u","l","t","i","e","s"," ","g","e","n","e","r","a","t","i","n","g"," ","a"," ","d","e","t","a","i","l","e","d"," ","r","e","s","p","o","n","s","e"," ","r","i","g","h","t"," ","n","o","w",".","\n","\n">>
    \o (IF decision.should_escalate
        THEN <<"Y","o","u","r"," ","r","e","q","u","e","s","t"," ","h","a","s"," ","b","e","e","n"," ","c","l","a","s","s","i","f","i","e","d"," ","a","s"," ">> \o decision.urgency_text
             \o <<" ","p","r","i","o","r","i","t","y"," ","a","n","d"," ","w","i","l","l"," ","b","e"," ","e","s","c","a","l","a","t","e","d"," ","t","o"," ","o","u","r"," ","t","e","c","h","n","i","c","a","l"," ","t","e","a","m","."," ">>
             \o <<"Y","o","u"," ","c","a","n"," ","e","x","p","e","c","t"," ","a"," ","r","e","s","p","o","n","s","e"," ","w","i","t","h","i","n"," ","2","-","4"," ","h","o","u","r","s",".","\n","\n">>
        ELSE <<"P","l","e","a","s","e"," ","t","r","y"," ","t","h","e"," ","f","o","l","l","o","w","i","n","g"," ","g","e","n","e","r","a","l"," ","t","r","o","u","b","l","e","s","h","o","o","t","i","n","g"," ","s","t","e","p","s"," ","o","r"," ","c","o","n","t","a","c","t"," ","I","T"," ","s","u","p","p","o","r","t"," ","d","i","r","e","c","t","l","y",".","\n","\n">>)
    \o <<"F","o","r"," ","i","m","m","e","d","i","a","t","e"," ","a","s","s","i","s","t","a","n","c","e",","," ","p","l","e","a","s","e"," ","c","o","n","t","a","c","t"," ","I","T"," ","s","u","p","p","o","r","t"," ","a","t"," ","e","x","t","e","n","s","i","o","n"," ","1","2","3","4"," ","o","r"," ","e","m","a","i","l"," ","s","u","p","p","o","r","t","@","c","o","m","p","a","n","y",".","c","o","m",".">>

GenerateFallbackResponse(category, decision) ==
    <<"T","h","a","n","k"," ","y","o","u"," ","f","o","r"," ","c","o","n","t","a","c","t","i","n","g"," ","I","T"," ","s","u","p","p","o","r","t"," ","r","e","g","a","r","d","i","n","g"," ","y","o","u","r"," ">>
        \o Replace(category, <<"_">>, <<" ">>) \o <<" ","i","s","s","u","e",".","\n","\n">>
    \o <<"I"," ","a","p","o","l","o","g","i","z","e",","," ","b","u","t"," ","I","'","m"," ","e","x","p","e","r","i","e","n","c","i","n","g"," ","t","e","c","h","n","i","c","a","l"," ","d","i","f","f","i","c","u","l","t","i","e","s"," ","g","e","n","e","r","a","t","i","n","g"," ","a"," ","d","e","t","a","i","l","e","d"," ","r","e","s","p","o","n","s","e"," ","r","i","g","h","t"," ","n","o","w",".","\n","\n">>
    \o (IF decision.should_escalate
        THEN <<"Y","o","u","r"," ","r","e","q","u","e","s","t"," ","h","a","s"," ","b","e","e","n"," ","c","l","a","s","s","i","f","i","e","d"," ","a","s"," ">> \o decision.urgency_text
             \o <<" ","p","r","i","o","r","i","t","y"," ","a","n","d"," ","w","i","l","l"," ","b","e"," ","e","s","c","a","l","a","t","e","d"," ","t","o"," ","o","u","r"," ","t","e","c","h","n","i","c","a","l"," ","t","e","a","m","."," ">>
             \o <<"Y","o","u"," ","c","a","n"," ","e","x","p","e","c","t"," ","a"," ","r","e","s","p","o","n","s","e"," ","w","i","t","h","i","n"," ","2","-","4"," ","h","o","u","r","s",".","\n","\n">>
        ELSE <<"P","l","e","a","s","e"," ","t","r","y"," ","t","h","e"," ","f","o","l","l","o","w","i","n","g"," ","g","e","n","e","r","a","l"," ","t","r","o","u","b","l","e","s","h","o","o","t","i","n","g"," ","s","t","e","p","s"," ","o","r"," ","c","o","n","t","a","c","t"," ","I","T"," ","s","u","p","p","o","r","t"," ","d","i","r","e","c","t","l","y",".","\n","\n">>)
    \o <<"F","o","r"," ","i","m","m","e","d","i","a","t","e"," ","a","s","s","i","s","t","a","n","c","e",","," ","p","l","e","a","s","e"," ","c","o","n","t","a","c","t"," ","I","T"," ","s","u","p","p","o","r","t"," ","a","t"," ","e","x","t","e","n","s","i","o","n"," ","1","2","3","4"," ","o","r"," ","e","m","a","i","l"," ","s","u","p","p","o","r","t","@","c","o","m","p","a","n","y",".","c","o","m",".">>

\* the texts of the urgency levels
UrgencyText(urgency) ==
    CASE urgency = "normal" -> <<"n","o","r","m","a","l">>
      [] urgency = "high" -> <<"h","i","g","h">>
      [] urgency = "critical" -> <<"c","r","i","t","i","c","a","l">>

\* the replies the completion service may give to the response prompt
SampleResponseReplies ==
    << <<"P","l","e","a","s","e"," ","r","e","s","t","a","r","t",".","\n","\n","\n","\n","T","h","e","n"," ","*","*","r","e","t","r","y","*","*",".">>, <<" "," ","T","r","y"," ","t","h","e"," ","p","o","r","t","a","l","."," ">>, << >> >>

\* how many of the sample response replies are drawn
MaxResponseReplies == 1

ResponseReplies == FirstOf(SampleResponseReplies, MaxResponseReplies)

\* lines 48-91: the completion answers and the cleaned reply is returned, or the
\* call fails and the canned text is returned
GenerateResponse ==
    /\ pc = "escalated"
    /\ \/ /\ calls' = Append(calls, "complete_fail")
          /\ response_text' =
                GenerateFallbackResponse(classification.category,
                    [should_escalate |-> escalation.should_escalate,
                     urgency_text |-> UrgencyText(escalation.urgency_level)])
       \/ \E content \in ResponseReplies :
             /\ calls' = Append(calls, "complete_ok")
             /\ response_text' = CleanResponseFormatting(Strip(content))
    /\ pc' = "generated"
    /\ UNCHANGED <<config, auxVars, clsVars, retVars, escVars, request, issued,
                   exception, result>>

-----------------------------------------------------------------------------
(* HelpDeskSystem.process_request (core/system.py)                         *)

HelpDeskRequest(id, text) == [id |-> id, request |-> text]

HelpDeskResponse(request_id, cls, knowledge, response, decision) ==
    [status |-> "returned", request_id |-> request_id, classification |-> cls,
     retrieved_knowledge |-> knowledge, response |-> response, escalation |-> decision]

\* the call ended by an exception leaving process_request
Propagated(e) == [status |-> "raised", exception |-> e]

\* str(uuid.uuid4()): an identifier no earlier request was given
Uuid4(n) == <<"u","u","i","d","-">> \o NatText(n)

\* line 86, from models import ...: the package is helpdesk.models.models and the
\* entry points put only its parent directory on the path, so no module named
\* models is found
ModelsImportable == FALSE

ModuleNotFoundError == <<"N","o"," ","m","o","d","u","l","e"," ","n","a","m","e","d"," ","'","m","o","d","e","l","s","'">>

\* the requests and the identifiers the callers supply (none, or one of their own)
SamplePipelineRequests ==
    << SampleRequests[7], SampleRequests[1], SampleRequests[8], SampleRequests[2],
       SampleRequests[3] >>

\* how many of the sample pipeline requests are drawn
MaxPipelineRequests == 2

PipelineRequests == FirstOf(SamplePipelineRequests, MaxPipelineRequests)

SuppliedIds == {<< >>, <<"u","1">>}

\* lines 37-47: the request arrives, gets an identifier when it has none, and
\* classify is entered
Receive ==
    /\ pc = "idle"
    /\ \E text \in PipelineRequests, id \in SuppliedIds :
          IF id = << >>
          THEN /\ request' = HelpDeskRequest(Uuid4(issued + 1), text)
               /\ issued' = issued + 1
          ELSE /\ request' = HelpDeskRequest(id, text)
               /\ UNCHANGED issued
    /\ predicted_category' = << >>
    /\ confidence_response' = << >>
    /\ confidence' = 0
    /\ classification' = NoClassification
    /\ retrieved' = << >>
    /\ tiers' = << >>
    /\ vector_results' = << >>
    /\ llm_response' = << >>
    /\ reasons' = << >>
    /\ urgency_level' = "normal"
    /\ escalation' = NoEscalation
    /\ response_text' = << >>
    /\ exception' = << >>
    /\ result' = NoResult
    /\ calls' = << >>
    /\ pc' = "classify"
    /\ UNCHANGED <<config, auxVars>>

\* lines 49-53: classify returned, retrieve is called
CallRetrieve ==
    /\ pc = "classified"
    /\ pc' = "retrieve"
    /\ UNCHANGED <<config, auxVars, clsVars, retVars, escVars, ioVars>>

\* lines 55-60 and should_escalate lines 35-36: retrieve returned, should_escalate
\* is entered with no reason and urgency normal
CallShouldEscalate ==
    /\ pc = "retrieved"
    /\ reasons' = << >>
    /\ urgency_level' = "normal"
    /\ pc' = "esc_triggers"
    /\ UNCHANGED <<config, auxVars, clsVars, retVars, ioVars, escalation>>

\* lines 70-80
ReturnResponse ==
    /\ pc = "generated"
    /\ result' = HelpDeskResponse(request.id, classification, retrieved, response_text,
                                  escalation)
    /\ pc' = "complete"
    /\ UNCHANGED <<config, auxVars, clsVars, retVars, escVars, request, issued, calls,
                   exception, response_text>>

\* lines 82-103: the handler imports the models and builds the error response; when
\* the import raises, that exception leaves process_request
HandleException ==
    /\ pc = "except"
    /\ IF ModelsImportable
       THEN /\ result' =
                  HelpDeskResponse(request.id,
                      ClassificationResult(POLICY_QUESTION, 0,
                                           <<"E","r","r","o","r"," ","i","n"," ","c","l","a","s","s","i","f","i","c","a","t","i","o","n",":"," ">> \o exception),
                      << >>,
                      <<"I"," ","a","p","o","l","o","g","i","z","e",","," ","b","u","t"," ","I"," ","e","n","c","o","u","n","t","e","r","e","d"," ","a","n"," ","e","r","r","o","r"," ","p","r","o","c","e","s","s","i","n","g"," ","y","o","u","r"," ","r","e","q","u","e","s","t","."," ","P","l","e","a","s","e"," ","c","o","n","t","a","c","t"," ","I","T"," ","s","u","p","p","o","r","t"," ","d","i","r","e","c","t","l","y"," ","f","o","r"," ","a","s","s","i","s","t","a","n","c","e","."," ","E","r","r","o","r",":"," ">>
                          \o exception,
                      EscalationDecision(TRUE, <<"S","y","s","t","e","m"," ","e","r","r","o","r",":"," ">> \o exception, "high"))
            /\ pc' = "complete"
       ELSE /\ result' = Propagated(ModuleNotFoundError)
            /\ pc' = "raised"
    /\ UNCHANGED <<config, auxVars, clsVars, retVars, escVars, request, issued, calls,
                   exception, response_text>>

\* the attributes LLMKnowledgeRetriever gives itself (lines 29-34, 232, 253)
RetrieverAttributes == {"knowledge_chunks", "response_generator", "faiss_index", "groq_client"}

AttributeError == <<"'","L","L","M","K","n","o","w","l","e","d","g","e","R","e","t","r","i","e","v","e","r","'"," ","o","b","j","e","c","t"," ","h","a","s"," ","n","o"," ","a","t","t","r","i","b","u","t","e"," ","'","m","o","d","e","l","'">>

\* get_system_status, lines 105-119: the dictionary is built from the components;
\* its configuration entries read knowledge_retriever.model
GetSystemStatus ==
    /\ pc = "idle"
    /\ IF "model" \in RetrieverAttributes
       THEN /\ result' = [status |-> "returned",
                          components |-> [classifier |-> <<"l","o","a","d","e","d">>,
                                          knowledge_retriever |->
                                              NatText(Len(knowledge_chunks)) \o <<" ","c","h","u","n","k","s"," ","l","o","a","d","e","d">>,
                                          escalation_engine |-> <<"l","o","a","d","e","d">>,
                                          response_generator |-> <<"l","o","a","d","e","d">>]]
            /\ pc' = "status"
       ELSE /\ result' = Propagated(AttributeError)
            /\ pc' = "status_raised"
    /\ UNCHANGED <<config, auxVars, clsVars, retVars, escVars, request, issued, calls,
                   exception, response_text>>

Next ==
    \/ Receive
    \/ ClassifyNext
    \/ CallRetrieve
    \/ RetrieveNext
    \/ CallShouldEscalate
    \/ EscalationNext
    \/ GenerateResponse
    \/ ReturnResponse
    \/ HandleException
    \/ GetSystemStatus

-----------------------------------------------------------------------------
(* _load_json_file (knowledge_retriever.py lines 89-137)                   *)

\* what json.load returns: a string, a number, a list of values, or a dictionary
\* kept as the list of its (key, value) entries in file order
JsonString(text) == [type |-> "str", text |-> text, items |-> << >>]
JsonNumber == [type |-> "int", text |-> << >>, items |-> << >>]
JsonList(items) == [type |-> "list", text |-> << >>, items |-> items]
JsonDict(entries) == [type |-> "dict", text |-> << >>, items |-> entries]

\* line 103: a string value longer than this is a chunk of its own
SubstantialLength == 50

\* all(isinstance(item, str) for item in value)
AllStrings(value) == \A i \in 1..Len(value.items) : value.items[i].type = "str"

\* lines 117-123: the key, then each item as a bullet line
ListChunk(key, value, current_path, file_path) ==
    [content |-> key \o <<":","\n">> \o
                 Join( <<"\n">>, [i \in 1..Len(value.items) |-> <<"-"," ">> \o value.items[i].text]),
     source |-> file_path,
     section |-> current_path]

\* lines 95-131: the branches are tried in the order the code tests them
RECURSIVE extract_text_chunks(_, _, _)
RECURSIVE ExtendFromEntries(_, _, _, _)
RECURSIVE ExtendFromItems(_, _, _, _)
extract_text_chunks(obj, path, file_path) ==
    IF obj.type = "dict" THEN ExtendFromEntries(obj.items, 1, path, file_path)
    ELSE IF obj.type = "list" THEN ExtendFromItems(obj.items, 1, path, file_path)
    ELSE << >>

\* lines 100-124: the loop over a dictionary's entries from entry k on
ExtendFromEntries(entries, k, path, file_path) ==
    IF k > Len(entries) THEN << >>
    ELSE LET key == entries[k].key
             value == entries[k].value
             current_path == IF path # << >> THEN path \o <<".">> \o key ELSE key
             chunks ==
                 IF value.type = "str" /\ Len(value.text) > SubstantialLength
                 THEN << [content |-> key \o <<":"," ">> \o value.text,
                          source |-> file_path,
                          section |-> current_path] >>
                 ELSE IF value.type \in {"dict", "list"}
                 THEN extract_text_chunks(value, current_path, file_path)
                 ELSE IF value.type = "list" /\ value.items # << >>
                 THEN IF AllStrings(value)
                      THEN <<ListChunk(key, value, current_path, file_path)>>
                      ELSE << >>
                 ELSE << >>
         IN  chunks \o ExtendFromEntries(entries, k + 1, path, file_path)

\* lines 126-129: the loop over a list's items from item k on (enumerate counts from 0)
ExtendFromItems(items, k, path, file_path) ==
    IF k > Len(items) THEN << >>
    ELSE LET current_path == IF path # << >>
                             THEN path \o <<"[">> \o NatText(k - 1) \o <<"]">>
                             ELSE <<"[">> \o NatText(k - 1) \o <<"]">>
         IN  extract_text_chunks(items[k], current_path, file_path)
                 \o ExtendFromItems(items, k + 1, path, file_path)

\* the values an entry of a sample document may hold
SampleJsonValues ==
    << JsonList(<<JsonString( <<"D","o","w","n","l","o","a","d"," ","t","h","e"," ","i","n","s","t","a","l","l","e","r">>), JsonString( <<"R","u","n"," ","i","t">>)>>),
       JsonString( <<"O","p","e","n"," ","t","h","e"," ","s","o","f","t","w","a","r","e"," ","c","e","n","t","r","e",","," ","p","i","c","k"," ","t","h","e"," ","p","a","c","k","a","g","e"," ","a","n","d"," ","p","r","e","s","s"," ","i","n","s","t","a","l","l">>),
       JsonDict(<<[key |-> <<"s","t","e","p","s">>, value |-> JsonList(<<JsonString( <<"R","e","s","t","a","r","t">>)>>)]>>),
       JsonString( <<"S","e","e"," ","t","h","e"," ","p","o","r","t","a","l">>),
       JsonList(<< >>),
       JsonList(<<JsonString( <<"R","e","b","o","o","t">>), JsonNumber>>),
       JsonList(<<JsonDict(<<[key |-> <<"t","i","p","s">>,
                              value |-> JsonString( <<"K","e","e","p"," ","t","h","e"," ","o","p","e","r","a","t","i","n","g"," ","s","y","s","t","e","m"," ","a","n","d"," ","e","v","e","r","y"," ","a","p","p","l","i","c","a","t","i","o","n"," ","u","p","d","a","t","e","d">>)]>>)>>) >>

\* the keys of a sample document, in file order
SampleJsonKeys == << <<"v","p","n">>, <<"p","r","i","n","t","e","r">>, <<"e","m","a","i","l">> >>

\* how many entries a sample document holds at most
MaxJsonEntries == 2

\* the documents _load_json_file is checked with
JsonDocuments ==
    UNION {{JsonDict([k \in 1..n |->
                        [key |-> SampleJsonKeys[k], value |-> SampleJsonValues[v[k]]]]) :
               v \in [1..n -> 1..Len(SampleJsonValues)]} : n \in 0..MaxJsonEntries}

\* lines 133-134: the chunks of the document are appended to knowledge_chunks
LoadJsonFile ==
    /\ pc = "load_json"
    /\ knowledge_chunks' =
           knowledge_chunks \o extract_text_chunks(data, << >>, <<"i","n","s","t","a","l","l","a","t","i","o","n","_","g","u","i","d","e","s",".","j","s","o","n">>)
    /\ pc' = "json_loaded"
    /\ UNCHANGED <<categories, escalation_rules, faiss_index, auxVars, clsVars, retVars,
                   escVars, ioVars>>

-----------------------------------------------------------------------------
(* Specifications                                                         *)

\* no JSON file is being loaded, no text being cleaned, no concurrent call running
AuxIdle ==
    /\ data = << >>
    /\ raw_response = << >>
    /\ threads = << >>

\* the files EscalationEngine may find at Config.CATEGORIES_FILE
EngineFiles == {FileWith(FullCategoryFile), FileMissing}

\* should_escalate entered with any request, category and confidence (lines 35-36)
InitEscalation ==
    /\ \E f \in EngineFiles : escalation_rules = LoadEscalationRules(f)
    /\ categories = << >>
    /\ knowledge_chunks = << >>
    /\ faiss_index = FALSE
    /\ request \in {[id |-> <<"r","1">>, request |-> r] : r \in Requests}
    /\ classification \in {ClassificationResult(RequestCategory[c], x, << >>) :
                              c \in 1..Len(RequestCategory), x \in Confidences}
    /\ issued = 0
    /\ predicted_category = << >>
    /\ confidence_response = << >>
    /\ confidence = 0
    /\ retrieved = << >>
    /\ tiers = << >>
    /\ vector_results = << >>
    /\ llm_response = << >>
    /\ reasons = << >>
    /\ urgency_level = "normal"
    /\ escalation = NoEscalation
    /\ response_text = << >>
    /\ exception = << >>
    /\ result = NoResult
    /\ calls = << >>
    /\ AuxIdle
    /\ pc = "esc_triggers"

SpecEscalation == InitEscalation /\ [][EscalationNext]_vars

\* should_escalate is straight-line code without external calls: a call that has
\* started runs every rule to the return
SpecEscalationFair == SpecEscalation /\ WF_vars(EscalationNext)

\* the files LLMRequestClassifier may find at data/categories.json
ClassifierFiles == {FileWith(FullCategoryFile), FileMissing, FileWith(EmptyCategoryFile)}

\* classify entered with any request
InitClassify ==
    /\ \E f \in ClassifierFiles : categories = LoadCategories(f)
    /\ escalation_rules = << >>
    /\ knowledge_chunks = << >>
    /\ faiss_index = FALSE
    /\ request \in {[id |-> <<"r","1">>, request |-> r] : r \in Requests}
    /\ issued = 0
    /\ predicted_category = << >>
    /\ confidence_response = << >>
    /\ confidence = 0
    /\ classification = NoClassification
    /\ retrieved = << >>
    /\ tiers = << >>
    /\ vector_results = << >>
    /\ llm_response = << >>
    /\ reasons = << >>
    /\ urgency_level = "normal"
    /\ escalation = NoEscalation
    /\ response_text = << >>
    /\ exception = << >>
    /\ result = NoResult
    /\ calls = << >>
    /\ AuxIdle
    /\ pc = "classify"

SpecClassify == InitClassify /\ [][ClassifyNext]_vars

\* how many of the sample chunks a loaded knowledge base holds
MaxChunks == 4

\* how many articles the large knowledge base holds
MaxArticles == 22

\* the knowledge bases construction may load, each with or without a vector index
\* (_build_vector_index builds none without an API key or without chunks)
KnowledgeBases ==
    {<< >>, Take(SampleChunks, 2), Take(SampleChunks, MaxChunks), LargeKnowledgeBase(MaxArticles)}

\* retrieve entered with any request
InitRetrieve ==
    /\ categories = << >>
    /\ escalation_rules = << >>
    /\ knowledge_chunks \in KnowledgeBases
    /\ faiss_index \in {b \in BOOLEAN : b => knowledge_chunks # << >>}
    /\ request \in {[id |-> <<"r","1">>, request |-> r] : r \in Requests}
    /\ issued = 0
    /\ predicted_category = << >>
    /\ confidence_response = << >>
    /\ confidence = 0
    /\ classification = NoClassification
    /\ retrieved = << >>
    /\ tiers = << >>
    /\ vector_results = << >>
    /\ llm_response = << >>
    /\ reasons = << >>
    /\ urgency_level = "normal"
    /\ escalation = NoEscalation
    /\ response_text = << >>
    /\ exception = << >>
    /\ result = NoResult
    /\ calls = << >>
    /\ AuxIdle
    /\ pc = "retrieve"

SpecRetrieve == InitRetrieve /\ [][RetrieveNext]_vars

\* _load_json_file entered with any sample document, after the markdown files
InitJson ==
    /\ categories = << >>
    /\ escalation_rules = << >>
    /\ knowledge_chunks \in {<< >>, Take(SampleChunks, 2)}
    /\ faiss_index = FALSE
    /\ request = HelpDeskRequest(<< >>, << >>)
    /\ issued = 0
    /\ predicted_category = << >>
    /\ confidence_response = << >>
    /\ confidence = 0
    /\ classification = NoClassification
    /\ retrieved = << >>
    /\ tiers = << >>
    /\ vector_results = << >>
    /\ llm_response = << >>
    /\ reasons = << >>
    /\ urgency_level = "normal"
    /\ escalation = NoEscalation
    /\ response_text = << >>
    /\ exception = << >>
    /\ result = NoResult
    /\ calls = << >>
    /\ data \in JsonDocuments
    /\ raw_response = << >>
    /\ threads = << >>
    /\ pc = "load_json"

SpecJson == InitJson /\ [][LoadJsonFile]_vars

\* generate_response entered with any category and any escalation decision
InitGenerate ==
    /\ \E f \in ClassifierFiles : categories = LoadCategories(f)
    /\ escalation_rules = << >>
    /\ knowledge_chunks = << >>
    /\ faiss_index = FALSE
    /\ request = HelpDeskRequest( <<"r","1">>, SampleRequests[1])
    /\ issued = 0
    /\ predicted_category = << >>
    /\ confidence_response = << >>
    /\ confidence = 0
    /\ classification \in {ClassificationResult(RequestCategory[c], DefaultConfidence, << >>) :
                              c \in 1..Len(RequestCategory)}
    /\ retrieved = << >>
    /\ tiers = << >>
    /\ vector_results = << >>
    /\ llm_response = << >>
    /\ reasons = << >>
    /\ urgency_level \in {"normal", "high", "critical"}
    /\ escalation \in {EscalationDecision(b, IF b THEN <<"U","r","g","e","n","t"," ","k","e","y","w","o","r","d","s"," ","d","e","t","e","c","t","e","d">>
                                                  ELSE <<"S","t","a","n","d","a","r","d"," ","r","e","q","u","e","s","t"," ","-"," ","n","o"," ","e","s","c","a","l","a","t","i","o","n"," ","n","e","e","d","e","d">>,
                                          urgency_level) : b \in BOOLEAN}
    /\ response_text = << >>
    /\ exception = << >>
    /\ result = NoResult
    /\ calls = << >>
    /\ AuxIdle
    /\ pc = "escalated"

SpecGenerate == InitGenerate /\ [][GenerateResponse]_vars

\* the characters the raw texts are made of: the markers the cleaning removes, the
\* two characters of an escaped newline, a newline, a blank and a letter
RawAlphabet == {"*", "#", "\\", "n", "\n", " ", "a"}

\* how long an enumerated raw text is at most
MaxRawLength == 3

\* longer completions: emphasis, headings and runs of blank lines, and markers
\* next to each other or inside an escaped newline
SampleRawTexts ==
    << <<"*","*","H","e","l","l","o"," ","t","h","e","r","e","!","*","*","\n","\n","#","#"," ","A"," ","h","e","a","d","e","r","\n","\n","#","#","#"," ","A","n","o","t","h","e","r","\n","\n","\n","\n","T","h","e"," ","*","*","e","n","d","*","*">>,
       <<"S","t","e","p"," ","1","\\","n","S","t","e","p"," ","2","\\","n","\\","n","\\","n","\\","n","D","o","n","e">>,
       <<"a","\n","\\","*","n","\n","b">>,
       <<"#"," ","*","#"," ","T","i","t","l","e">>,
       <<" "," ","\n","\n","T","e","x","t","\n"," ","\n">> >>

\* the texts _clean_response_formatting is checked with
RawTexts ==
    UNION {[1..n -> RawAlphabet] : n \in 0..MaxRawLength} \cup Range(SampleRawTexts)

\* _clean_response_formatting (lines 117-152) called with raw_response
CleanResponse ==
    /\ pc = "clean"
    /\ response_text' = CleanResponseFormatting(raw_response)
    /\ pc' = "cleaned"
    /\ UNCHANGED <<config, auxVars, clsVars, retVars, escVars, request, issued, calls,
                   exception, result>>

\* _clean_response_formatting entered with any raw text
InitClean ==
    /\ categories = << >>
    /\ escalation_rules = << >>
    /\ knowledge_chunks = << >>
    /\ faiss_index = FALSE
    /\ request = HelpDeskRequest(<< >>, << >>)
    /\ issued = 0
    /\ predicted_category = << >>
    /\ confidence_response = << >>
    /\ confidence = 0
    /\ classification = NoClassification
    /\ retrieved = << >>
    /\ tiers = << >>
    /\ vector_results = << >>
    /\ llm_response = << >>
    /\ reasons = << >>
    /\ urgency_level = "normal"
    /\ escalation = NoEscalation
    /\ response_text = << >>
    /\ exception = << >>
    /\ result = NoResult
    /\ calls = << >>
    /\ data = << >>
    /\ raw_response \in RawTexts
    /\ threads = << >>
    /\ pc = "clean"

SpecClean == InitClean /\ [][CleanResponse]_vars

\* how many process_request calls run concurrently on the one system
MaxThreads == 2

\* the request call i is made with
RequestOf(i) == SamplePipelineRequests[((i - 1) % MaxPipelineRequests) + 1]

ContextLosingReasons ==
    [pc |-> pc, request |-> request, predicted_category |-> predicted_category,
     confidence_response |-> confidence_response, confidence |-> confidence,
     classification |-> classification, retrieved |-> retrieved, tiers |-> tiers,
     vector_results |-> vector_results, llm_response |-> llm_response,
     reasons |-> << >>, urgency_level |-> urgency_level, escalation |-> escalation,
     response_text |-> response_text, exception |-> exception, result |-> result,
     calls |-> calls]

\* what belongs to one call of process_request: its position, its request object and
\* the local variables of process_request, classify, retrieve, should_escalate and
\* generate_response (no method assigns to an attribute of self after construction)
Context ==
    [pc |-> pc, request |-> request, predicted_category |-> predicted_category,
     confidence_response |-> confidence_response, confidence |-> confidence,
     classification |-> classification, retrieved |-> retrieved, tiers |-> tiers,
     vector_results |-> vector_results, llm_response |-> llm_response,
     reasons |-> reasons, urgency_level |-> urgency_level, escalation |-> escalation,
     response_text |-> response_text, exception |-> exception, result |-> result,
     calls |-> calls]

\* a call that has not started
IdleContext ==
    [pc |-> "idle", request |-> HelpDeskRequest(<< >>, << >>), predicted_category |-> << >>,
     confidence_response |-> << >>, confidence |-> 0,
     classification |-> NoClassification, retrieved |-> << >>, tiers |-> << >>,
     vector_results |-> << >>, llm_response |-> << >>,
     reasons |-> << >>, urgency_level |-> "normal", escalation |-> NoEscalation,
     response_text |-> << >>, exception |-> << >>, result |-> NoResult,
     calls |-> << >>]

\* the thread that runs takes up the call with context c
Resume(c) ==
    /\ pc' = c.pc
    /\ request' = c.request
    /\ predicted_category' = c.predicted_category
    /\ confidence_response' = c.confidence_response
    /\ confidence' = c.confidence
    /\ classification' = c.classification
    /\ retrieved' = c.retrieved
    /\ tiers' = c.tiers
    /\ vector_results' = c.vector_results
    /\ llm_response' = c.llm_response
    /\ reasons' = c.reasons
    /\ urgency_level' = c.urgency_level
    /\ escalation' = c.escalation
    /\ response_text' = c.response_text
    /\ exception' = c.exception
    /\ result' = c.result
    /\ calls' = c.calls

\* the calls are made with the services down, so that the replies a call gets are
\* the same whenever it runs: every service call fails; call i is made with
\* RequestOf(i), the odd calls with an identifier of their own and the even ones
\* with none
SameReplies ==
    /\ pc \notin {"status", "status_raised"}
    /\ \A k \in 1..Len(calls) : calls[k] \in {"complete_fail", "embed_fail"}
    /\ pc # "idle" =>
          /\ request.request = RequestOf(threads.current)
          /\ request.id \in SuppliedIds <=> threads.current % 2 = 1

\* a statement of the call that runs
CallStep ==
    /\ threads # << >>
    /\ Next
    /\ SameReplies'

\* first each call is made alone, one after the other; when the last has returned the
\* same calls are made again, together
FinishAlone ==
    /\ threads # << >>
    /\ threads.phase = "alone"
    /\ pc \in {"complete", "raised"}
    /\ threads' = [threads EXCEPT
                      !.alone[threads.current] = result,
                      !.current = IF threads.current < MaxThreads
                                  THEN threads.current + 1 ELSE 1,
                      !.phase = IF threads.current < MaxThreads THEN "alone" ELSE "together"]
    /\ Resume(IdleContext)
    /\ UNCHANGED <<config, issued, data, raw_response>>

\* a call that has started and has not ended
InProgress(at) == at \notin {"idle", "complete", "raised"}

\* the interpreter switches from the call that runs to call j, at any statement;
\* interleaved records that a call in progress gave way to another call in progress
Switch ==
    /\ threads # << >>
    /\ threads.phase = "together"
    /\ \E j \in (1..MaxThreads) \ {threads.current} :
          /\ threads' = [threads EXCEPT
                            !.saved[threads.current] = Context,
                            !.current = j,
                            !.interleaved = @ \/ (InProgress(pc) /\
                                                     InProgress(threads.saved[j].pc))]
          /\ Resume(threads.saved[j])
    /\ UNCHANGED <<config, issued, data, raw_response>>

ConcurrentNext ==
    \/ CallStep
    \/ FinishAlone
    \/ Switch

\* a system constructed with the category files in place and the chunks loaded
InitConcurrent ==
    /\ categories = LoadCategories(FileWith(FullCategoryFile))
    /\ escalation_rules = LoadEscalationRules(FileWith(FullCategoryFile))
    /\ knowledge_chunks = Take(SampleChunks, MaxChunks)
    /\ faiss_index = TRUE
    /\ issued = 0
    /\ data = << >>
    /\ raw_response = << >>
    /\ threads = [phase |-> "alone", current |-> 1,
                  saved |-> [i \in 1..MaxThreads |-> IdleContext],
                  alone |-> [i \in 1..MaxThreads |-> NoResult],
                  interleaved |-> FALSE]
    /\ request = HelpDeskRequest(<< >>, << >>)
    /\ predicted_category = << >>
    /\ confidence_response = << >>
    /\ confidence = 0
    /\ classification = NoClassification
    /\ retrieved = << >>
    /\ tiers = << >>
    /\ vector_results = << >>
    /\ llm_response = << >>
    /\ reasons = << >>
    /\ urgency_level = "normal"
    /\ escalation = NoEscalation
    /\ response_text = << >>
    /\ exception = << >>
    /\ result = NoResult
    /\ calls = << >>
    /\ pc = "idle"

SpecConcurrent == InitConcurrent /\ [][ConcurrentNext]_vars

\* the knowledge bases the pipeline is checked with
PipelineKnowledgeBases == {<< >>, Take(SampleChunks, MaxChunks)}

\* the system after construction: the classifier has read data/categories.json under
\* the project root, the escalation engine categories.json under the working
\* directory, and the retriever has loaded its chunks
Init ==
    /\ \E f \in ClassifierFiles : categories = LoadCategories(f)
    /\ \E f \in EngineFiles : escalation_rules = LoadEscalationRules(f)
    /\ knowledge_chunks \in PipelineKnowledgeBases
    /\ faiss_index \in {b \in BOOLEAN : b => knowledge_chunks # << >>}
    /\ request = HelpDeskRequest(<< >>, << >>)
    /\ issued = 0
    /\ predicted_category = << >>
    /\ confidence_response = << >>
    /\ confidence = 0
    /\ classification = NoClassification
    /\ retrieved = << >>
    /\ tiers = << >>
    /\ vector_results = << >>
    /\ llm_response = << >>
    /\ reasons = << >>
    /\ urgency_level = "normal"
    /\ escalation = NoEscalation
    /\ response_text = << >>
    /\ exception = << >>
    /\ result = NoResult
    /\ calls = << >>
    /\ AuxIdle
    /\ pc = "idle"

Spec == Init /\ [][Next]_vars

\* the steps of a call of process_request once the request is received
ProcessRequestStep ==
    \/ ClassifyNext
    \/ CallRetrieve
    \/ RetrieveNext
    \/ CallShouldEscalate
    \/ EscalationNext
    \/ GenerateResponse
    \/ ReturnResponse
    \/ HandleException

\* process_request is one synchronous call: once entered it goes on until it returns
\* or raises, every external call returning or failing (a step of the model); that
\* a request arrives at all is not assumed
SpecFair == Spec /\ WF_vars(ProcessRequestStep)

-----------------------------------------------------------------------------
(* Properties of should_escalate                                           *)

Urgencies == {"normal", "high", "critical"}

UrgencyRank(u) == CASE u = "normal" -> 0 [] u = "high" -> 1 [] u = "critical" -> 2

EscalationPcs == {"esc_triggers", "esc_urgent", "esc_confidence", "esc_priority",
                  "esc_multi", "esc_business", "esc_decide"}

\* the six rule conditions, stated on the inputs of should_escalate
TriggerMatched ==
    \E i \in 1..Len(escalation_rules) :
        /\ escalation_rules[i].key = classification.category
        /\ \E t \in 1..Len(escalation_rules[i].triggers) :
               MatchesTrigger(request.request, escalation_rules[i].triggers[t])

UrgentKeywordPresent ==
    \E kw \in Range(ESCALATION_KEYWORDS) : Contains(Lower(request.request), kw)

LowConfidence == classification.confidence < 800

HighPriorityCategory == classification.category \in {SECURITY_INCIDENT, HARDWARE_FAILURE}

MultiIssuePresent ==
    \E c \in Range(multiple_issue_indicators) : Contains(Lower(request.request), c)

BusinessKeywordPresent ==
    \E kw \in Range(business_impact_keywords) : Contains(Lower(request.request), kw)

WallpaperRequest == SampleRequests[1]
ServerRequest == SampleRequests[2]

\* a step of should_escalate leaves the urgency at least as high as it was
UrgencyStepRises ==
    pc \in EscalationPcs =>
        /\ urgency_level' \in Urgencies
        /\ UrgencyRank(urgency_level') >= UrgencyRank(urgency_level)

\* C5: within one call of should_escalate no rule step replaces the urgency by a
\* lower one in the order normal < high < critical, and the urgency of the decision
\* is one of normal, high, critical.
C5_UrgencyOnlyRises ==
    /\ [][UrgencyStepRises]_vars
    /\ [](pc = "escalated" => escalation.urgency_level \in Urgencies)

\* an evaluation in which a later rule met an urgency that was already critical
C5_Witness ==
    /\ pc = "escalated"
    /\ escalation.urgency_level = "critical"
    /\ BusinessKeywordPresent
    /\ UrgentKeywordPresent

\* C6: should_escalate is true exactly when one of the six rules fired; when none
\* fired the decision is not to escalate, with urgency normal and the canned reason,
\* as for the wallpaper request with confidence >= 0.8 and a category that is not
\* high-priority and whose triggers do not match.
C6_EscalateIffRuleFired ==
    pc = "escalated" =>
        /\ escalation.should_escalate <=>
               \/ TriggerMatched
               \/ UrgentKeywordPresent
               \/ LowConfidence
               \/ HighPriorityCategory
               \/ MultiIssuePresent
               \/ BusinessKeywordPresent
        /\ ~escalation.should_escalate =>
               /\ escalation.urgency_level = "normal"
               /\ escalation.reason = NoEscalationReason
               /\ escalation.reason # << >>
        /\ (/\ request.request = WallpaperRequest
            /\ ~LowConfidence
            /\ ~HighPriorityCategory
            /\ ~TriggerMatched) => ~escalation.should_escalate

C6_Witness ==
    /\ pc = "escalated"
    /\ request.request = WallpaperRequest
    /\ ~escalation.should_escalate
    /\ escalation.reason = NoEscalationReason

\* C7: the final urgency is critical exactly when an urgent keyword is a
\* case-insensitive substring of the request or the category is security_incident or
\* hardware_failure; high exactly when it is not critical and a category trigger
\* matched or a business-impact keyword is present; normal otherwise.  The server
\* request escalates with urgency critical and a business-impact reason.
C7_FinalUrgency ==
    pc = "escalated" =>
        /\ escalation.urgency_level =
              IF UrgentKeywordPresent \/ HighPriorityCategory THEN "critical"
              ELSE IF TriggerMatched \/ BusinessKeywordPresent THEN "high"
              ELSE "normal"
        /\ request.request = ServerRequest =>
              /\ escalation.should_escalate
              /\ escalation.urgency_level = "critical"
              /\ Contains(escalation.reason, <<"B","u","s","i","n","e","s","s"," ","i","m","p","a","c","t"," ","i","n","d","i","c","a","t","o","r",":"," ">>)

C7_Witness ==
    /\ pc = "escalated"
    /\ request.request = ServerRequest
    /\ escalation.urgency_level = "critical"
    /\ Contains(escalation.reason, <<"B","u","s","i","n","e","s","s"," ","i","m","p","a","c","t"," ","i","n","d","i","c","a","t","o","r",":"," ","m","e","e","t","i","n","g">>)

-----------------------------------------------------------------------------
(* process_request: the error boundary                                     *)

Terminal == pc \in {"complete", "raised"}

CompletionCalls == {i \in 1..Len(calls) : calls[i] \in {"complete_ok", "complete_fail"}}

EveryCompletionCallFailed ==
    /\ CompletionCalls # {}
    /\ \A i \in CompletionCalls : calls[i] = "complete_fail"

\* C1: process_request returns a HelpDeskResponse for every request and never lets an
\* exception out; when a stage raised, the result returned has category
\* policy_question, confidence 0, no retrieved knowledge, should_escalate true,
\* urgency high and a non-empty response text.
C1_AlwaysReturnsResponse ==
    Terminal =>
        /\ result.status = "returned"
        /\ exception # << >> =>
              /\ result.classification.category = POLICY_QUESTION
              /\ result.classification.confidence = 0
              /\ result.retrieved_knowledge = << >>
              /\ result.escalation.should_escalate
              /\ result.escalation.urgency_level = "high"
              /\ result.response # << >>

\* C2: when every call to the completion service fails, process_request still
\* returns a result, and the result escalates and has a non-empty response text.
C2_ServiceDownStillEscalates ==
    (Terminal /\ EveryCompletionCallFailed) =>
        /\ result.status = "returned"
        /\ result.escalation.should_escalate
        /\ result.response # << >>

-----------------------------------------------------------------------------
(* classify                                                                *)

\* the keyword fallback produced the classification
FallbackUsed ==
    /\ pc = "classified"
    /\ StartsAt(classification.reasoning, <<"C","l","a","s","s","i","f","i","e","d"," ","b","a","s","e","d"," ","o","n"," ","k","e","y","w","o","r","d"," ","m","a","t","c","h","i","n","g">>, 1)

\* C4: once the category reply was validated to a category, the ClassificationResult
\* has that category whatever the confidence call and the rationale call do
\* (succeed, fail, reply malformed), and an unparsable confidence reply gives
\* confidence 0.8.
C4_CategoryDecisionKept ==
    (pc = "classified" /\ predicted_category # << >>) =>
        /\ classification.category = EnumOf(categories, predicted_category)
        /\ (confidence_response # << >> /\ ~ParseFloat(confidence_response).ok) =>
              classification.confidence = 800

\* the keywords the fallback holds for each category, by category value
KeywordsOf(enum) ==
    CASE enum = PASSWORD_RESET -> keyword_mapping[1].keywords
      [] enum = SOFTWARE_INSTALLATION -> keyword_mapping[2].keywords
      [] enum = NETWORK_CONNECTIVITY -> keyword_mapping[3].keywords
      [] enum = HARDWARE_FAILURE -> keyword_mapping[4].keywords
      [] enum = EMAIL_CONFIGURATION -> keyword_mapping[5].keywords
      [] OTHER -> << >>

MatchCount(enum) ==
    Cardinality({k \in 1..Len(KeywordsOf(enum)) :
                    Contains(Lower(request.request), KeywordsOf(enum)[k])})

MatchCounts == {MatchCount(categories[i].enum) : i \in 1..Len(categories)} \cup {0}

BestMatchCount == CHOOSE m \in MatchCounts : \A x \in MatchCounts : x <= m

FirstBestCategory ==
    categories[CHOOSE i \in 1..Len(categories) :
                  /\ MatchCount(categories[i].enum) = BestMatchCount
                  /\ \A j \in 1..(i - 1) : MatchCount(categories[j].enum) < BestMatchCount].enum

\* C9: the keyword fallback returns the category with the most keywords found in the
\* lowercased request, the first registered among equals, with confidence
\* min(0.9, 0.2 x matched count), or confidence 0.3 when no keyword matched; the
\* request "I forgot my password and can't log in" gets password_reset.
C9_FallbackPicksBestCategory ==
    FallbackUsed =>
        /\ BestMatchCount > 0 =>
              /\ classification.category = FirstBestCategory
              /\ classification.confidence = Min(900, 200 * BestMatchCount)
        /\ BestMatchCount = 0 => classification.confidence = 300
        /\ request.request = SampleRequests[3] =>
              classification.category = PASSWORD_RESET

-----------------------------------------------------------------------------
(* retrieve                                                                *)

QueryTokens == Split(Lower(request.request))

\* the number of query tokens a text contains
TokenCount(content) ==
    Cardinality({w \in 1..Len(QueryTokens) : Contains(Lower(content), QueryTokens[w])})

\* C3: with the vector tier disabled, when the semantic tier answers without failing
\* and yields no result, retrieve goes on to the keyword tier and returns the chunks
\* that contain at least one query token, in descending order of match count.
C3_KeywordTierAfterEmptySemantic ==
    (/\ pc = "retrieved"
     /\ ~faiss_index
     /\ knowledge_chunks # << >>
     /\ "complete_ok" \in Range(calls)
     /\ RelevantIndices(knowledge_chunks, llm_response) = << >>) =>
        /\ "keyword" \in Range(tiers)
        /\ (\E c \in Range(knowledge_chunks) : TokenCount(c.content) > 0) => retrieved # << >>
        /\ \A i \in 1..Len(retrieved) : TokenCount(retrieved[i].content) > 0
        /\ \A i \in 1..(Len(retrieved) - 1) :
              TokenCount(retrieved[i].content) >= TokenCount(retrieved[i + 1].content)

TierOrders ==
    {<< >>, <<"vector">>, <<"vector", "semantic">>, <<"vector", "semantic", "keyword">>}

\* C10: retrieve runs the tiers in the order vector, semantic, keyword; when the
\* vector search yields a result it is returned and the completion service is not
\* called, and when the completion service answers the ranking prompt the keyword
\* search is not run.
C10_FirstTierWithResultWins ==
    /\ tiers \in TierOrders
    /\ vector_results # << >> =>
          /\ tiers = <<"vector">>
          /\ CompletionCalls = {}
          /\ pc = "retrieved"
          /\ retrieved = vector_results
    /\ "complete_ok" \in Range(calls) => "keyword" \notin Range(tiers)
    /\ (pc = "retrieved" /\ retrieved # << >> /\ "keyword" \notin Range(tiers)) =>
          \/ retrieved = vector_results
          \/ /\ tiers = <<"vector", "semantic">>
             /\ vector_results = << >>

\* the vector search gave three results and retrieve returned them at once
C10_Witness ==
    /\ pc = "retrieved"
    /\ tiers = <<"vector">>
    /\ Len(vector_results) = 3
    /\ retrieved = vector_results
    /\ calls = <<"embed_ok">>

-----------------------------------------------------------------------------
(* Properties of retrieve under failing services                           *)

\* the statements retrieve can be at
RetrievePcs == {"retrieve", "retrieve_semantic", "retrieve_keyword", "retrieved"}

\* the chunks of the knowledge base that contain a token of the query
MatchingChunks == {i \in 1..Len(knowledge_chunks) : TokenCount(knowledge_chunks[i].content) > 0}

\* results are what a keyword search owes: up to three matching chunks, those with
\* the most matched tokens, most matches first
KeywordTierExpected(results) ==
    /\ Len(results) = Min(3, Cardinality(MatchingChunks))
    /\ \A i \in 1..Len(results) :
          /\ \E j \in MatchingChunks : knowledge_chunks[j].content = results[i].content
          /\ \A k \in 1..Len(results) : k # i => results[k].content # results[i].content
    /\ \A i \in 1..(Len(results) - 1) :
          TokenCount(results[i].content) >= TokenCount(results[i + 1].content)
    /\ \A j \in MatchingChunks :
          \/ \E i \in 1..Len(results) : results[i].content = knowledge_chunks[j].content
          \/ \A i \in 1..Len(results) :
                TokenCount(results[i].content) >= TokenCount(knowledge_chunks[j].content)

\* C11: retrieve never raises because a service failed: no exception escapes it;
\* after the embedding call failed the vector tier has returned nothing and the
\* semantic tier is run next; after the completion call failed the keyword tier is
\* run and its results are what retrieve returns.
C11_ServiceFailureNeverRaised ==
    /\ pc \in RetrievePcs
    /\ exception = << >>
    /\ "embed_fail" \in Range(calls) =>
          /\ vector_results = << >>
          /\ pc = "retrieve_semantic" \/ "semantic" \in Range(tiers)
    /\ "complete_fail" \in Range(calls) =>
          /\ pc = "retrieve_keyword" \/ "keyword" \in Range(tiers)
          /\ pc = "retrieved" => KeywordTierExpected(retrieved)

\* both services failed and the keyword tier's results were returned
C11_Witness ==
    /\ pc = "retrieved"
    /\ calls = <<"embed_fail", "complete_fail">>
    /\ tiers = <<"vector", "semantic", "keyword">>
    /\ retrieved # << >>

-----------------------------------------------------------------------------
(* Properties of the request identifier and of get_system_status           *)

\* C12: the request_id of the result is the identifier of the request: the one
\* supplied, or when none was supplied a fresh one that process_request stored in
\* the request; this on the success path and on the error path alike.
C12_RequestIdReturned ==
    Terminal =>
        /\ result.status = "returned"
        /\ result.request_id = request.id
        /\ \/ request.id \in SuppliedIds \ {<< >>}
           \/ /\ issued > 0
              /\ request.id = Uuid4(issued)

\* C19: on an initialized system get_system_status returns the component states
\* with the number of loaded chunks, and does not raise.
C19_StatusReturned ==
    pc \in {"status", "status_raised"} =>
        /\ result.status = "returned"
        /\ result.components.knowledge_retriever =
               NatText(Len(knowledge_chunks)) \o <<" ","c","h","u","n","k","s"," ","l","o","a","d","e","d">>

-----------------------------------------------------------------------------
(* Properties of _load_json_file                                           *)

\* the dictionary entries of a document, each with the dotted path of its key; a
\* dictionary inside a list is reached through the position of the list item
RECURSIVE EntriesUnder(_, _)
EntriesUnder(obj, path) ==
    IF obj.type = "dict"
    THEN UNION {LET at == IF path = << >> THEN obj.items[k].key
                          ELSE path \o <<".">> \o obj.items[k].key
                IN  {[key |-> obj.items[k].key, value |-> obj.items[k].value, path |-> at]}
                        \cup EntriesUnder(obj.items[k].value, at) :
                   k \in 1..Len(obj.items)}
    ELSE IF obj.type = "list"
    THEN UNION {EntriesUnder(obj.items[k], path \o <<"[">> \o NatText(k - 1) \o <<"]">>) :
                   k \in 1..Len(obj.items)}
    ELSE {}

\* the entries whose value is a non-empty list made only of strings
StringListEntries ==
    {e \in EntriesUnder(data, << >>) :
        /\ e.value.type = "list"
        /\ e.value.items # << >>
        /\ \A i \in 1..Len(e.value.items) : e.value.items[i].type = "str"}

\* the key followed by the items as bullet lines
BulletText(e) ==
    e.key \o <<":">> \o
    Join(<< >>, [i \in 1..Len(e.value.items) |-> <<"\n","-"," ">> \o e.value.items[i].text])

\* C13: after a JSON source is loaded, every dictionary entry whose value is a
\* non-empty list made only of strings has exactly one chunk: its content is the
\* key followed by the items as bullet lines, its section the dotted path of the key.
C13_StringListBecomesOneChunk ==
    pc = "json_loaded" =>
        \A e \in StringListEntries :
            Cardinality({i \in 1..Len(knowledge_chunks) :
                            /\ knowledge_chunks[i].content = BulletText(e)
                            /\ knowledge_chunks[i].section = e.path}) = 1

-----------------------------------------------------------------------------
(* Properties of generate_response                                         *)

\* a category name with each underscore turned into a space
SpacedName(category) ==
    [i \in 1..Len(category) |-> IF category[i] = "_" THEN " " ELSE category[i]]

\* generate_response has returned after its completion call failed
GenerationFailed ==
    /\ pc = "generated"
    /\ calls # << >>
    /\ calls[Len(calls)] = "complete_fail"

\* C14: when the completion service fails, generate_response raises nothing and
\* returns a non-empty text that names the category with underscores replaced by
\* spaces, and that contains the urgency level followed by " priority", and the
\* word "escalated", exactly when the decision is to escalate.
C14_FallbackResponseOnFailure ==
    GenerationFailed =>
        /\ exception = << >>
        /\ response_text # << >>
        /\ Contains(response_text, <<"y","o","u","r"," ">> \o SpacedName(classification.category) \o <<" ","i","s","s","u","e">>)
        /\ escalation.should_escalate <=>
              Contains(response_text, UrgencyText(escalation.urgency_level) \o <<" ","p","r","i","o","r","i","t","y">>)
        /\ escalation.should_escalate <=> Contains(response_text, <<"e","s","c","a","l","a","t","e","d">>)

\* the completion call failed for an escalated password reset of high urgency
C14_Witness ==
    /\ GenerationFailed
    /\ escalation.should_escalate
    /\ classification.category = PASSWORD_RESET
    /\ Contains(response_text, <<"y","o","u","r"," ","p","a","s","s","w","o","r","d"," ","r","e","s","e","t"," ","i","s","s","u","e">>)
    /\ Contains(response_text, <<"h","i","g","h"," ","p","r","i","o","r","i","t","y">>)
    /\ Contains(response_text, <<"e","s","c","a","l","a","t","e","d">>)

-----------------------------------------------------------------------------
(* Properties of _clean_response_formatting                                *)

\* C15: for every raw text, the cleaned text contains neither "**" nor "##" nor
\* "###".
C15_NoMarkdownMarkers ==
    pc = "cleaned" =>
        /\ ~Contains(response_text, <<"*","*">>)
        /\ ~Contains(response_text, <<"#","#">>)
        /\ ~Contains(response_text, <<"#","#","#">>)

\* C16: the cleaned text never contains three consecutive newlines, has no leading
\* and no trailing blank line, and contains no backslash followed by the letter n.
C16_NoBlankRunsNoEscapes ==
    pc = "cleaned" =>
        /\ ~Contains(response_text, <<"\n","\n","\n">>)
        /\ response_text # << >> =>
              /\ response_text[1] # "\n"
              /\ response_text[Len(response_text)] # "\n"
        /\ ~Contains(response_text, <<"\\","n">>)

-----------------------------------------------------------------------------
(* Properties of the results of retrieve                                   *)

\* C18: every result retrieve returns, whichever tier produced it, has a
\* relevance_score between 0 and 1.
C18_RelevanceInUnitInterval ==
    pc = "retrieved" =>
        \A i \in 1..Len(retrieved) :
            /\ 0 <= retrieved[i].relevance_score
            /\ retrieved[i].relevance_score <= 1000

\* C20: for every query and every tier, retrieve returns at most three results, in
\* non-increasing order of relevance_score.
C20_AtMostThreeDescending ==
    pc = "retrieved" =>
        /\ Len(retrieved) <= 3
        /\ \A i \in 1..(Len(retrieved) - 1) :
              retrieved[i].relevance_score >= retrieved[i + 1].relevance_score

\* the keyword tier returned three results, the first scoring above the last, out
\* of a knowledge base where more than three chunks match
C20_Witness ==
    /\ pc = "retrieved"
    /\ tiers = <<"vector", "semantic", "keyword">>
    /\ Len(retrieved) = 3
    /\ retrieved[1].relevance_score > retrieved[3].relevance_score
    /\ Cardinality(MatchingChunks) > 3

-----------------------------------------------------------------------------
(* Properties of concurrent calls                                          *)

\* the context of call i: the running thread's, or the one saved at the last switch
ContextOf(i) == IF i = threads.current THEN Context ELSE threads.saved[i]

\* a result without its request identifier, which uuid4 makes anew for every call
Anonymous(r) == IF r.status = "returned" THEN [r EXCEPT !.request_id = << >>] ELSE r

\* every call made together with the others that has ended has returned what it
\* returned alone, under its own identifier
ReturnsAsAlone ==
    threads.phase = "together" =>
        \A i \in 1..MaxThreads :
            ContextOf(i).pc \in {"complete", "raised"} =>
                /\ ContextOf(i).result.status = "returned"
                /\ Anonymous(ContextOf(i).result) = Anonymous(threads.alone[i])
                /\ ContextOf(i).result.request_id = ContextOf(i).request.id

ConcurrentStep ==
    /\ config' = config
    /\ ReturnsAsAlone'

\* C17: for any interleaving of concurrent process_request calls on one system, no
\* step of a call changes the knowledge chunks, the classifier's category table or
\* the escalation rule table, and every call returns the result it returns when it
\* runs alone with the same replies of the services.
C17_ConcurrentCallsIndependent == [][ConcurrentStep]_vars

\* the calls have returned after their statements were interleaved, the first two
\* with different results
C17_Witness ==
    /\ threads # << >>
    /\ threads.phase = "together"
    /\ threads.interleaved
    /\ \A i \in 1..MaxThreads : ContextOf(i).pc = "complete"
    /\ Anonymous(ContextOf(1).result) # Anonymous(ContextOf(2).result)

------------------------------------------------------------------------------
(* category validation                                                    *)

\* the label the specification gives a category reply: the reply itself when it is a
\* registered label, otherwise the first label in registration order that contains
\* the reply or is contained in it (case folded), otherwise the first label
ExpectedLabel(names, reply) ==
    LET near == {i \in 1..Len(names) :
                    \/ Contains(Lower(names[i]), Lower(reply))
                    \/ Contains(Lower(reply), Lower(names[i]))}
    IN  IF \E i \in 1..Len(names) : names[i] = reply THEN reply
        ELSE IF near # {} THEN names[CHOOSE i \in near : \A j \in near : i <= j]
        ELSE names[1]

\* the category call of classify was answered in this step
CategoryAnswered ==
    /\ pc = "classify"
    /\ calls' = Append(calls, "complete_ok")

CategoryStep ==
    CategoryAnswered =>
        /\ pc' = "classify_confidence"
        /\ \E content \in CategoryReplies :
              predicted_category' =
                  ExpectedLabel(CategoryNames(categories),
                                Strip(GenerateResponseText(content)))

\* C21: an answered category call always continues on the primary path (to the
\* confidence call) with the label the reply maps to: the exact label, else the
\* first label in registration order containing the reply or contained in it, else
\* the first registered label; no reply makes classify fail or use the fallback.
C21_ReplyMapsToLabel == [][CategoryStep]_vars

------------------------------------------------------------------------------
(* the semantic tier                                                      *)

\* the semantic tier answered and retrieve returned its results
SemanticAnswered ==
    /\ pc = "retrieved"
    /\ tiers = <<"vector", "semantic">>
    /\ calls # << >>
    /\ calls[Len(calls)] = "complete_ok"

\* the numbers a text shows: its maximal runs of digits, as <<first, last>> positions
NumbersShown(text) ==
    {r \in (1..Len(text)) \X (1..Len(text)) :
        /\ r[1] <= r[2]
        /\ \A i \in r[1]..r[2] : IsDigit(text[i])
        /\ r[1] > 1 => ~IsDigit(text[r[1] - 1])
        /\ r[2] < Len(text) => ~IsDigit(text[r[2] + 1])}

NumberAt(text, r) == NatValue(SubSeq(text, r[1], r[2]))

\* those of them that index a chunk
IndicesShown(text, n) == {r \in NumbersShown(text) : NumberAt(text, r) < n}

\* the k-th of them in reply order, k from 1
IndexShown(text, n, k) ==
    CHOOSE r \in IndicesShown(text, n) :
        Cardinality({q \in IndicesShown(text, n) : q[1] < r[1]}) = k - 1

------------------------------------------------------------------------------
(* the keyword tier                                                       *)

\* the keyword search ran and retrieve returned its results
KeywordAnswered ==
    /\ pc = "retrieved"
    /\ tiers = <<"vector", "semantic", "keyword">>

\* the number of query tokens each chunk of the knowledge base contains
TokenCounts == [i \in 1..Len(knowledge_chunks) |-> TokenCount(knowledge_chunks[i].content)]

\* C23: the keyword tier scores each chunk by the number of whitespace-split query
\* tokens occurring in its lowercased content, drops the chunks scoring 0, and
\* returns the three highest in descending order, equal scores in load order, each
\* with relevance matched tokens / total tokens; a query without tokens returns the
\* empty list and nothing is raised.
C23_KeywordTierResults ==
    KeywordAnswered =>
        LET count == TokenCounts
            matching == {i \in DOMAIN count : count[i] > 0}
            \* the chunks ranked before chunk i: more matched tokens, or as many and
            \* loaded earlier
            ahead(i) == Cardinality({j \in matching :
                                        count[j] > count[i] \/ (count[j] = count[i] /\ j < i)})
        IN  /\ exception = << >>
            /\ Len(retrieved) = Min(3, Cardinality(matching))
            /\ \A i \in matching :
                  ahead(i) < 3 =>
                      retrieved[ahead(i) + 1] =
                          RetrievalResult(knowledge_chunks[i],
                                          (count[i] * 1000) \div Len(QueryTokens))
            /\ QueryTokens = << >> => retrieved = << >>

\* more than three chunks match, two of the three returned tie and a lower-scoring
\* one follows them
C23_Witness ==
    /\ KeywordAnswered
    /\ Cardinality(MatchingChunks) > 3
    /\ Len(retrieved) = 3
    /\ retrieved[1].relevance_score = retrieved[2].relevance_score
    /\ retrieved[2].relevance_score > retrieved[3].relevance_score

\* a query of blanks only went through the keyword search
C23_BlankQuerySearched ==
    /\ KeywordAnswered
    /\ knowledge_chunks # << >>
    /\ QueryTokens = << >>

------------------------------------------------------------------------------
(* the business-impact rule                                               *)

\* the business-impact keywords in the order the specification lists them
ListedBusinessKeywords ==
    << <<"p","r","e","s","e","n","t","a","t","i","o","n">>, <<"m","e","e","t","i","n","g">>, <<"d","e","a","d","l","i","n","e">>, <<"c","l","i","e","n","t">>, <<"c","u","s","t","o","m","e","r">>, <<"r","e","v","e","n","u","e">>,
       <<"b","u","s","i","n","e","s","s"," ","c","r","i","t","i","c","a","l">>, <<"p","r","o","d","u","c","t","i","o","n">>, <<"s","e","r","v","e","r">> >>

\* the listed keywords occurring in the request, by position in the list
BusinessKeywordsIn(req) ==
    {i \in 1..Len(ListedBusinessKeywords) : Contains(Lower(req), ListedBusinessKeywords[i])}

BusinessStep ==
    pc = "esc_business" =>
        LET present == BusinessKeywordsIn(request.request)
            first == CHOOSE i \in present : \A j \in present : i <= j
        IN  IF present = {}
            THEN /\ reasons' = reasons
                 /\ urgency_level' = urgency_level
            ELSE /\ reasons' = Append(reasons, <<"B","u","s","i","n","e","s","s"," ","i","m","p","a","c","t"," ","i","n","d","i","c","a","t","o","r",":"," ">>
                                               \o ListedBusinessKeywords[first])
                 /\ urgency_level' = IF urgency_level = "normal" THEN "high"
                                     ELSE urgency_level

\* C24: the business-impact rule adds at most one reason per evaluation, naming the
\* first keyword of the list presentation, meeting, deadline, client, customer,
\* revenue, business critical, production, server that occurs in the request; it
\* raises the urgency from normal to high and leaves high and critical as they are.
C24_BusinessImpactRule == [][BusinessStep]_vars

\* a request holding three listed keywords, "client" first in the text: the one
\* reason names "presentation" and the urgency went from normal to high
C24_Witness ==
    /\ pc = "esc_decide"
    /\ request.request = <<"C","l","i","e","n","t"," ","p","r","e","s","e","n","t","a","t","i","o","n"," ","d","e","a","d","l","i","n","e">>
    /\ Cardinality(BusinessKeywordsIn(request.request)) = 3
    /\ reasons = << <<"B","u","s","i","n","e","s","s"," ","i","m","p","a","c","t"," ","i","n","d","i","c","a","t","o","r",":"," ","p","r","e","s","e","n","t","a","t","i","o","n">> >>
    /\ urgency_level = "high"

------------------------------------------------------------------------------
(* the category triggers and the reason string                            *)

\* the triggers registered for the classified category, none when it has no entry
OwnTriggers ==
    LET entries == {i \in 1..Len(escalation_rules) :
                       escalation_rules[i].key = classification.category}
    IN  IF entries = {} THEN << >>
        ELSE escalation_rules[CHOOSE i \in entries : \A j \in entries : i <= j].triggers

\* a trigger phrase applies to a request: the lowercased phrase is a substring of
\* the lowercased request, or every word of the phrase is a substring of a word of
\* the request
TriggerApplies(req, phrase) ==
    LET words == Split(Lower(phrase))
        said == Split(Lower(req))
    IN  \/ Contains(Lower(req), Lower(phrase))
        \/ \A w \in Range(words) : \E r \in Range(said) : Contains(r, w)

OwnTriggersApplying ==
    SelectSeq(OwnTriggers, LAMBDA t : TriggerApplies(request.request, t))

TriggerStep ==
    pc = "esc_triggers" =>
        /\ reasons' = reasons \o [i \in 1..Len(OwnTriggersApplying) |->
                                     <<"C","a","t","e","g","o","r","y"," ","t","r","i","g","g","e","r",":"," ">> \o OwnTriggersApplying[i]]
        /\ IF OwnTriggersApplying = << >> THEN urgency_level' = urgency_level
           ELSE UrgencyRank(urgency_level') >= UrgencyRank("high")

\* C26: a trigger phrase matches exactly when its lowercased text is a substring of
\* the lowercased request or every whitespace-split word of it is a substring of
\* some whitespace-split word of the request; every matching trigger of the
\* classified category appends its own reason and raises the urgency to at least
\* high; the triggers of the other categories are not consulted.
C26_CategoryTriggers == [][TriggerStep]_vars

\* both triggers of password_reset matched, the second by its words only, and the
\* urgency is high
C26_Witness ==
    /\ pc = "esc_urgent"
    /\ classification.category = PASSWORD_RESET
    /\ request.request = <<"L","o","c","k","e","d"," ","a","c","c","o","u","n","t",","," ","M","u","l","t","i","p","l","e"," ","F","A","I","L","E","D"," ","a","t","t","e","m","p","t","s">>
    /\ ~Contains(Lower(request.request), <<"a","c","c","o","u","n","t"," ","l","o","c","k","e","d">>)
    /\ reasons = << <<"C","a","t","e","g","o","r","y"," ","t","r","i","g","g","e","r",":"," ","M","u","l","t","i","p","l","e"," ","f","a","i","l","e","d"," ","a","t","t","e","m","p","t","s">>,
                    <<"C","a","t","e","g","o","r","y"," ","t","r","i","g","g","e","r",":"," ","A","c","c","o","u","n","t"," ","l","o","c","k","e","d">> >>
    /\ urgency_level = "high"

\* the rules of should_escalate in evaluation order, then the decision and the return
RuleOrder ==
    <<"esc_triggers", "esc_urgent", "esc_confidence", "esc_priority", "esc_multi",
      "esc_business", "esc_decide", "escalated">>

RuleStepInOrder ==
    \E i \in 1..(Len(RuleOrder) - 1) : pc = RuleOrder[i] /\ pc' = RuleOrder[i + 1]

\* the kind of rule an entry of the reason string comes from
ReasonKind(entry) ==
    IF StartsAt(entry, <<"C","a","t","e","g","o","r","y"," ","t","r","i","g","g","e","r",":"," ">>, 1) THEN "trigger"
    ELSE IF StartsAt(entry, <<"U","r","g","e","n","t"," ","k","e","y","w","o","r","d",":"," ">>, 1) THEN "urgent"
    ELSE IF StartsAt(entry, <<"L","o","w"," ","c","l","a","s","s","i","f","i","c","a","t","i","o","n"," ","c","o","n","f","i","d","e","n","c","e",":"," ">>, 1) THEN "confidence"
    ELSE IF StartsAt(entry, <<"H","i","g","h","-","p","r","i","o","r","i","t","y"," ","c","a","t","e","g","o","r","y",":"," ">>, 1) THEN "priority"
    ELSE IF StartsAt(entry, <<"M","u","l","t","i","p","l","e"," ","i","s","s","u","e","s"," ","d","e","t","e","c","t","e","d">>, 1) THEN "multiple"
    ELSE IF StartsAt(entry, <<"B","u","s","i","n","e","s","s"," ","i","m","p","a","c","t"," ","i","n","d","i","c","a","t","o","r",":"," ">>, 1) THEN "business"
    ELSE "other"

\* where the entries of the returned reason string start: at its first character
\* and after every "; "
EntryStarts ==
    {1} \cup {i + 2 : i \in {j \in 1..Len(escalation.reason) :
                                StartsAt(escalation.reason, <<";"," ">>, j)}}

\* the kinds of the entries of the returned reason string, in order
ReasonKinds ==
    [k \in 1..Cardinality(EntryStarts) |->
        ReasonKind(SubSeq(escalation.reason,
                          CHOOSE p \in EntryStarts :
                              Cardinality({q \in EntryStarts : q < p}) = k - 1,
                          Len(escalation.reason)))]

Repeat(kind, n) == [i \in 1..n |-> kind]

\* one entry per matching trigger of the category, one per urgent keyword found,
\* then one for each of the four other rules whose condition holds
ExpectedKinds ==
    Repeat("trigger", Len(OwnTriggersApplying))
    \o Repeat("urgent", Cardinality({kw \in Range(ESCALATION_KEYWORDS) :
                                        Contains(Lower(request.request), kw)}))
    \o (IF LowConfidence THEN <<"confidence">> ELSE << >>)
    \o (IF HighPriorityCategory THEN <<"priority">> ELSE << >>)
    \o (IF MultiIssuePresent THEN <<"multiple">> ELSE << >>)
    \o (IF BusinessKeywordsIn(request.request) # {} THEN <<"business">> ELSE << >>)

ReasonInRuleOrder ==
    pc = "escalated" =>
        IF ExpectedKinds = << >> THEN ~escalation.should_escalate
        ELSE ReasonKinds = ExpectedKinds

\* C25: every call of should_escalate evaluates the six rules in order, none
\* skipped, and returns; the reason string holds one entry per matching category
\* trigger, one per urgent keyword found, and one each for low confidence,
\* high-priority category, multiple issues and business impact when their condition
\* holds, joined with "; " in that rule order.
C25_AllRulesInOrder ==
    /\ [][RuleStepInOrder]_vars
    /\ []ReasonInRuleOrder
    /\ <>(pc = "escalated")

\* a decision whose reason string has entries of five rules
C25_Witness ==
    /\ pc = "escalated"
    /\ request.request = ServerRequest
    /\ ReasonKinds = <<"urgent", "urgent", "confidence", "priority", "business">>

------------------------------------------------------------------------------
(* the stages of process_request                                          *)

\* the stage a request is in: 1 received, 2 classified, 3 knowledge retrieved,
\* 4 escalation evaluated, 5 response generated, 6 complete
StageOf(at) ==
    CASE at \in {"classify", "classify_confidence", "classify_reasoning"} -> 1
      [] at \in {"classified", "retrieve", "retrieve_semantic", "retrieve_keyword"} -> 2
      [] at \in {"retrieved"} \cup EscalationPcs -> 3
      [] at = "escalated" -> 4
      [] at = "generated" -> 5
      [] at = "complete" -> 6
      [] OTHER -> 0

InStage(at) == StageOf(at) > 0

\* a step of a request stays in its stage or enters the next one; an error leaves
\* the stages for the handler, which goes straight to complete
StageStep ==
    \/ pc = "idle"
    \/ InStage(pc) /\ InStage(pc') /\ StageOf(pc') \in {StageOf(pc), StageOf(pc) + 1}
    \/ InStage(pc) /\ pc' = "except"
    \/ pc = "except" /\ pc' = "complete"

\* retrieval and escalation run with the classification made for this request
OwnClassificationUsed ==
    (StageOf(pc) \in {2, 3} /\ pc # "classified") =>
        /\ classification # NoClassification
        /\ classification.category \in Range(RequestCategory)

\* C27: a request passes through the stages received, classified, knowledge
\* retrieved, escalation evaluated, response generated and complete in this order,
\* each at most once and none skipped except by the error jump straight to complete;
\* retrieval and escalation use the classification of this request; and every
\* request received reaches complete, every external call returning or failing.
C27_StagesInOrder ==
    /\ [][StageStep]_vars
    /\ []OwnClassificationUsed
    /\ (InStage(pc) ~> (pc = "complete"))

------------------------------------------------------------------------------
(* the chunks a retrieve call returns                                     *)

\* the positions in the knowledge base of the chunk a result was built from
ChunksOf(r) ==
    {i \in 1..Len(knowledge_chunks) :
        /\ knowledge_chunks[i].content = r.content
        /\ knowledge_chunks[i].source = r.source}

\* C28: the results of one retrieve call reference pairwise distinct chunks, whatever
\* indices the completion service replies with and whatever the vector index
\* returns when it holds fewer than three chunks.
C28_DistinctChunks ==
    pc = "retrieved" =>
        \A i, j \in 1..Len(retrieved) : i # j => ChunksOf(retrieved[i]) # ChunksOf(retrieved[j])

\* C29: every chunk the semantic tier returns is one of the chunks whose summary
\* was presented to the completion service, one of the first 20 of the knowledge
\* base.
C29_ReturnedChunksWerePresented ==
    SemanticAnswered =>
        \A k \in 1..Len(retrieved) :
            \E c \in Range(SummarizedChunks(knowledge_chunks)) :
                /\ c.content = retrieved[k].content
                /\ c.source = retrieved[k].source

------------------------------------------------------------------------------
(* the keyword sets of the fallback classifier                            *)

\* the categories the keyword fallback holds a keyword set for
KeywordCategories ==
    {PASSWORD_RESET, SOFTWARE_INSTALLATION, NETWORK_CONNECTIVITY, HARDWARE_FAILURE,
     EMAIL_CONFIGURATION}

Loaded(enum) == \E i \in 1..Len(categories) : categories[i].enum = enum

\* the request contains keywords of this category's set and of no other set
OnlyKeywordsOf(enum) ==
    /\ MatchCount(enum) > 0
    /\ \A other \in KeywordCategories \ {enum} : MatchCount(other) = 0

\* C30: every category with a keyword set in the keyword fallback (password,
\* software, network, hardware, email) can be selected by it: when the category is
\* loaded and the request contains keywords of its set only, the fallback returns
\* that category, not the first loaded one.
C30_EveryKeywordSetSelects ==
    FallbackUsed =>
        \A enum \in KeywordCategories :
            (Loaded(enum) /\ OnlyKeywordsOf(enum)) => classification.category = enum

=============================================================================
